---- MODULE Spec2Model ----
(***************************************************************************)
(* PDFCompare: the diff-and-report pipeline of src/app.py.                 *)
(*                                                                         *)
(* A text line is a sequence of one-character strings.  The character      *)
(* "NUL" stands for the byte \x00 that opens PAGE_MARKER_PREFIX.  A line   *)
(* sequence is a sequence of lines.                                        *)
(***************************************************************************)
EXTENDS Integers, Sequences, FiniteSets, TLC

(***************************************************************************)
(* Bounds of the model.                                                    *)
(***************************************************************************)
MaxLinesA == 3
MaxLinesB == 3
MaxIgnoreLines == 3

\* Longest document A of the requests with a valid ignore_pattern.
MaxRegexLines == 2

\* Longest document of the requests over lines of several words.
MaxWordLines == 2

\* Most blocks of one tag in the documents that generate_report is given.
MaxTagBlocks == 11

\* Largest counts of unchanged and of modified lines in the stats records
\* that generate_report is given on their own.
MaxEqualStat == 10

MaxReplaceStat == 3

\* Number of keys of MetaKeySeq that the metadata maps draw from.
MaxMetaKeys == 2

\* Longest document A of the requests over page furniture.
MaxFurnitureLines == 2

\* Longest document of the loop of apply_ignore_rules taken step by step.
MaxRuleLines == 2

\* Longest content of the documents that differ in one line.
MaxChangeLines == 3

\* Longest document A of the requests that run concurrently.
MaxConcurrentLines == 1

(***************************************************************************)
(* Generic sequence helpers (Python list / str primitives).                *)
(***************************************************************************)
Min2(x, y) == IF x < y THEN x ELSE y

Max2(x, y) == IF x > y THEN x ELSE y

\* s[lo:hi] of Python, 0-based half-open, on a 1-based TLA+ sequence.
Slice(s, lo, hi) == IF hi <= lo THEN <<>> ELSE SubSeq(s, lo + 1, hi)

\* All sequences over S of length at most n.
SeqsUpTo(S, n) == UNION {[1..k -> S] : k \in 0..n}

RECURSIVE Concat(_)
\* Concatenation of a sequence of sequences.
Concat(ss) == IF ss = <<>> THEN <<>> ELSE Head(ss) \o Concat(Tail(ss))

(***************************************************************************)
(* Characters and str methods.                                             *)
(***************************************************************************)
Whitespace == {" ", "\t"}

Digits == <<"0", "1", "2", "3", "4", "5", "6", "7", "8", "9">>

UpperCase ==
    <<"A", "B", "C", "D", "E", "F", "G", "H", "I", "J", "K", "L", "M",
      "N", "O", "P", "Q", "R", "S", "T", "U", "V", "W", "X", "Y", "Z">>

LowerCase ==
    <<"a", "b", "c", "d", "e", "f", "g", "h", "i", "j", "k", "l", "m",
      "n", "o", "p", "q", "r", "s", "t", "u", "v", "w", "x", "y", "z">>

IsDigit(c) == \E d \in 1..Len(Digits) : Digits[d] = c

DigitValue(c) == (CHOOSE d \in 1..Len(Digits) : Digits[d] = c) - 1

\* str.lower() on one character.
LowerChar(c) ==
    IF \E k \in 1..Len(UpperCase) : UpperCase[k] = c
    THEN LowerCase[CHOOSE k \in 1..Len(UpperCase) : UpperCase[k] = c]
    ELSE c

\* str.lower()
Lower(s) == [k \in 1..Len(s) |-> LowerChar(s[k])]

RECURSIVE SplitFrom(_, _, _)
\* Scan of str.split(): cur is the word being collected from position k on.
SplitFrom(s, k, cur) ==
    IF k > Len(s)
    THEN IF cur = <<>> THEN <<>> ELSE <<cur>>
    ELSE IF s[k] \in Whitespace
         THEN IF cur = <<>>
              THEN SplitFrom(s, k + 1, <<>>)
              ELSE <<cur>> \o SplitFrom(s, k + 1, <<>>)
         ELSE SplitFrom(s, k + 1, Append(cur, s[k]))

\* str.split() with no argument: the maximal runs of non-whitespace.
Split(s) == SplitFrom(s, 1, <<>>)

RECURSIVE Join(_, _)
\* sep.join(words)
Join(sep, words) ==
    IF words = <<>> THEN <<>>
    ELSE IF Len(words) = 1 THEN words[1]
    ELSE words[1] \o sep \o Join(sep, Tail(words))

RECURSIVE LStrip(_)
LStrip(s) == IF s # <<>> /\ s[1] \in Whitespace THEN LStrip(Tail(s)) ELSE s

RECURSIVE RStrip(_)
RStrip(s) ==
    IF s # <<>> /\ s[Len(s)] \in Whitespace
    THEN RStrip(SubSeq(s, 1, Len(s) - 1))
    ELSE s

\* str.strip()
Strip(s) == RStrip(LStrip(s))

RECURSIVE ParseInt(_)
\* int() of a string of decimal digits.
ParseInt(s) ==
    IF s = <<>> THEN 0
    ELSE 10 * ParseInt(SubSeq(s, 1, Len(s) - 1)) + DigitValue(s[Len(s)])

(***************************************************************************)
(* Page-marker helpers.                                                    *)
(***************************************************************************)
PAGE_MARKER_PREFIX == <<"NUL", "P", "A", "G", "E", ":">>

\* The value None of left_page / right_page; page numbers are >= 0.
None == -1

_is_page_marker(line) ==
    /\ Len(line) >= Len(PAGE_MARKER_PREFIX)
    /\ SubSeq(line, 1, Len(PAGE_MARKER_PREFIX)) = PAGE_MARKER_PREFIX

_page_number_from_marker(line) ==
    ParseInt(SubSeq(line, Len(PAGE_MARKER_PREFIX) + 1, Len(line)))

RECURSIVE PageIndexFrom_AppendFirst(_, _, _)
\* The loop appending current_page before the marker updates it.
PageIndexFrom_AppendFirst(lines, k, current_page) ==
    IF k > Len(lines) THEN <<>>
    ELSE LET page == IF _is_page_marker(lines[k])
                     THEN _page_number_from_marker(lines[k])
                     ELSE current_page
         IN  <<current_page>> \o PageIndexFrom_AppendFirst(lines, k + 1, page)

RECURSIVE PageIndexFrom(_, _, _)
\* The loop of _build_page_index from position k with the given current_page.
PageIndexFrom(lines, k, current_page) ==
    IF k > Len(lines) THEN <<>>
    ELSE LET page == IF _is_page_marker(lines[k])
                     THEN _page_number_from_marker(lines[k])
                     ELSE current_page
         IN  <<page>> \o PageIndexFrom(lines, k + 1, page)

_build_page_index(lines) == PageIndexFrom(lines, 1, 1)

(***************************************************************************)
(* Regular expressions used by apply_ignore_rules.                         *)
(*                                                                         *)
(* A matcher state is a set of positions (1-based, the next character to   *)
(* read); a fullmatch succeeds when position Len(s) + 1 is reachable.      *)
(***************************************************************************)
DigitSet == {Digits[d] : d \in 1..Len(Digits)}

\* The character class of the bare-page-number pattern: hyphen, en dash, em dash
\* and \s.  "ENDASH" and "EMDASH" stand for U+2013 and U+2014.
DashOrSpace == {"-", "ENDASH", "EMDASH"} \cup Whitespace

\* Positions reachable from K by one or more characters of class C (C+).
AfterPlus(s, K, C) ==
    {k2 \in 1..(Len(s) + 1) :
        \E k \in K : k < k2 /\ \A m \in k..(k2 - 1) : s[m] \in C}

\* Positions reachable from K by zero or more characters of class C (C*).
AfterStar(s, K, C) == K \cup AfterPlus(s, K, C)

\* Positions reachable from K by the literal lit, compared case-insensitively.
AfterLiteralIgnoreCase(s, K, lit) ==
    {k + Len(lit) : k \in
        {k0 \in K : /\ k0 + Len(lit) - 1 <= Len(s)
                    /\ \A m \in 1..Len(lit) :
                          LowerChar(s[k0 + m - 1]) = LowerChar(lit[m])}}

\* re.fullmatch(r'[DashOrSpace]*\d+[DashOrSpace]*', s)
MatchBarePageNumber(s) ==
    LET p1 == AfterStar(s, {1}, DashOrSpace)
        p2 == AfterPlus(s, p1, DigitSet)
        p3 == AfterStar(s, p2, DashOrSpace)
    IN  (Len(s) + 1) \in p3

\* re.match in place of re.fullmatch: text after the page number is allowed.
MatchPageNOfM_Prefix(s) ==
    LET p1 == AfterLiteralIgnoreCase(s, {1}, <<"p", "a", "g", "e">>)
        p2 == AfterPlus(s, p1, Whitespace)
        p3 == AfterPlus(s, p2, DigitSet)
    IN  p3 # {}

\* re.fullmatch(r'page\s+\d+(\s+of\s+\d+)?', s, re.IGNORECASE)
MatchPageNOfM(s) ==
    LET p1 == AfterLiteralIgnoreCase(s, {1}, <<"p", "a", "g", "e">>)
        p2 == AfterPlus(s, p1, Whitespace)
        p3 == AfterPlus(s, p2, DigitSet)
        p4 == AfterPlus(s, p3, Whitespace)
        p5 == AfterLiteralIgnoreCase(s, p4, <<"o", "f">>)
        p6 == AfterPlus(s, p5, Whitespace)
        p7 == AfterPlus(s, p6, DigitSet)
    IN  (Len(s) + 1) \in (p3 \cup p7)

(***************************************************************************)
(* The user-supplied ignore_pattern.  The patterns of the model are the    *)
(* strings below; re_fullmatch gives the outcome of                        *)
(* re.fullmatch(pattern, line, flags=0) on each of them: a match result,   *)
(* or the exception the call raises.                                       *)
(***************************************************************************)
PatternLengthCap == 500

\* "" : the rule is inactive (falsy option).
PatNone == <<>>

\* ".*" : matches every line without a newline, a page marker included.
PatDotStar == <<".", "*">>

\* "a b" : a literal; matches exactly the line "a b".
PatLiteral == <<"a", " ", "b">>

\* "(" : re.error (missing parenthesis).
PatUnbalanced == <<"(">>

\* "a{99999999999}" : the parser raises OverflowError, which is not re.error.
PatHugeRepeat ==
    <<"a", "{", "9", "9", "9", "9", "9", "9", "9", "9", "9", "9", "9", "}">>

\* ".*" repeated cap / 2 times: exactly cap characters, valid, matches all.
PatAtCap ==
    [k \in 1..PatternLengthCap |-> IF k % 2 = 1 THEN "." ELSE "*"]

\* PatAtCap followed by "$": cap + 1 characters, valid, matches all.
PatTooLong == Append(PatAtCap, "$")

\* "(a+)+$" : nested quantifiers; matches the non-empty runs of "a", and on a
\* run of "a" followed by another character the matcher tries every way of
\* cutting the run into groups before it fails.
PatNested == <<"(", "a", "+", ")", "+", "$">>

IgnorePatterns ==
    {PatNone, PatDotStar, PatLiteral, PatUnbalanced, PatHugeRepeat,
     PatAtCap, PatTooLong}

MetaChars == {".", "*", "+", "(", ")", "{", "}", "$"}

IsLiteralPattern(pattern) == \A k \in 1..Len(pattern) : pattern[k] \notin MetaChars

\* re.fullmatch(pattern, line, flags=0): [exc, matched].
re_fullmatch(pattern, line) ==
    IF pattern = PatUnbalanced
    THEN [exc |-> "re.error", matched |-> FALSE]
    ELSE IF pattern = PatHugeRepeat
    THEN [exc |-> "OverflowError", matched |-> FALSE]
    ELSE IF IsLiteralPattern(pattern)
    THEN [exc |-> "none", matched |-> (line = pattern)]
    ELSE IF pattern = PatNested
    THEN [exc |-> "none",
          matched |-> (line # <<>> /\ \A k \in 1..Len(line) : line[k] = "a")]
    ELSE \* PatDotStar, PatAtCap, PatTooLong: any run of non-newline characters
         [exc |-> "none", matched |-> (\A k \in 1..Len(line) : line[k] # "\n")]

\* except (re.error, TimeoutError)
CaughtByIgnorePattern == {"re.error", "TimeoutError"}

RECURSIVE LeadingRun(_, _)
\* Length of the run of character c at the start of s.
LeadingRun(s, c) ==
    IF s # <<>> /\ s[1] = c THEN 1 + LeadingRun(Tail(s), c) ELSE 0

\* Steps the backtracking matcher of re spends in re.fullmatch(pattern, line).
\* The call takes no timeout argument and runs to completion: on PatNested
\* and a run of n "a" followed by another character it visits each of the
\* 2^n ways of grouping the run; otherwise a single pass over the line.
re_fullmatch_steps(pattern, line) ==
    LET n == LeadingRun(line, "a") IN
    IF pattern = PatNested /\ n > 0 /\ n < Len(line)
    THEN 2 ^ n
    ELSE Len(line) + 1

(***************************************************************************)
(* apply_ignore_rules.                                                     *)
(***************************************************************************)
IgnoreOptions ==
    [ignore_whitespace : BOOLEAN, ignore_case : BOOLEAN,
     ignore_headers_footers : BOOLEAN, ignore_pattern : IgnorePatterns]

RECURSIVE CollapsePairs(_)
\* One pass of re.sub(r'\s\s', ' ', s): each pair of whitespace characters
\* becomes one space, left to right, without rescanning.
CollapsePairs(s) ==
    IF s = <<>> THEN <<>>
    ELSE IF Len(s) >= 2 /\ s[1] \in Whitespace /\ s[2] \in Whitespace
         THEN <<" ">> \o CollapsePairs(SubSeq(s, 3, Len(s)))
         ELSE <<s[1]>> \o CollapsePairs(Tail(s))

\* TransformLine collapsing whitespace pairs in a single pass.
TransformLine_CollapsePairs(line, ignore_options) ==
    LET l1 == IF ignore_options.ignore_whitespace
              THEN CollapsePairs(line) ELSE line
    IN  IF ignore_options.ignore_case THEN Lower(l1) ELSE l1

\* Lines 122-126: the in-place transformations of a content line.
TransformLine(line, ignore_options) ==
    LET l1 == IF ignore_options.ignore_whitespace
              THEN Join(<<" ">>, Split(line)) ELSE line
    IN  IF ignore_options.ignore_case THEN Lower(l1) ELSE l1

\* Lines 128-137: [exc, drop] of the pattern rule on the transformed line.
PatternRule(line, ignore_options) ==
    LET pattern == ignore_options.ignore_pattern IN
    IF pattern = <<>> THEN [exc |-> "none", drop |-> FALSE]
    ELSE IF Len(pattern) > PatternLengthCap THEN [exc |-> "none", drop |-> FALSE]
    ELSE LET m == re_fullmatch(pattern, line) IN
         IF m.exc = "none" THEN [exc |-> "none", drop |-> m.matched]
         ELSE IF m.exc \in CaughtByIgnorePattern
              THEN [exc |-> "none", drop |-> FALSE]
              ELSE [exc |-> m.exc, drop |-> FALSE]

\* Steps that re.fullmatch of lines 131-133 spends on one line of the loop:
\* none on a page marker, an inactive pattern or a pattern over the cap.
LineMatchSteps(line, ignore_options) ==
    LET pattern == ignore_options.ignore_pattern IN
    IF _is_page_marker(line) \/ pattern = <<>> \/ Len(pattern) > PatternLengthCap
    THEN 0
    ELSE IF re_fullmatch(pattern, TransformLine(line, ignore_options)).exc # "none"
    THEN 1
    ELSE re_fullmatch_steps(pattern, TransformLine(line, ignore_options))

\* Greatest number of steps spent on a single line of the loop over lines.
MaxMatchSteps(lines, ignore_options) ==
    LET steps == {LineMatchSteps(lines[k], ignore_options) : k \in 1..Len(lines)} \cup {0}
    IN  CHOOSE m \in steps : \A x \in steps : x <= m

\* Lines 139-146: TRUE when the header/footer rule drops the line.
HeaderFooterRule(line, ignore_options) ==
    /\ ignore_options.ignore_headers_footers
    /\ LET stripped == Strip(line)
       IN  MatchBarePageNumber(stripped) \/ MatchPageNOfM(stripped)

\* The patterns of lines 142 and 145 as re receives them.
BarePageNumberPattern ==
    <<"[", "-", "ENDASH", "EMDASH", "\\", "s", "]", "*", "\\", "d", "+",
      "[", "-", "ENDASH", "EMDASH", "\\", "s", "]", "*">>

PageNOfMPattern ==
    <<"p", "a", "g", "e", "\\", "s", "+", "\\", "d", "+", "(", "\\", "s", "+",
      "o", "f", "\\", "s", "+", "\\", "d", "+", ")", "?">>

\* The user pattern that re.fullmatch of line 133 compiles for the line: re
\* keeps each pattern it has compiled in a cache of the process.
UserPatternCompiled(line, ignore_options) ==
    LET pattern == ignore_options.ignore_pattern IN
    IF /\ pattern # <<>>
       /\ Len(pattern) <= PatternLengthCap
       /\ re_fullmatch(pattern, line).exc = "none"
    THEN {pattern} ELSE {}

\* The patterns of lines 142-145 that re.fullmatch compiles for the line.
FurniturePatternsCompiled(line, ignore_options) ==
    IF ~ignore_options.ignore_headers_footers THEN {}
    ELSE IF MatchBarePageNumber(Strip(line)) THEN {BarePageNumberPattern}
    ELSE {BarePageNumberPattern, PageNOfMPattern}

\* ProcessLine without the page-marker guard of lines 118-120.
ProcessLine_NoMarkerGuard(line, ignore_options) ==
    LET t == TransformLine(line, ignore_options)
        p == PatternRule(t, ignore_options)
    IN  IF p.exc # "none" THEN [exc |-> p.exc, keep |-> FALSE, line |-> t]
        ELSE IF p.drop THEN [exc |-> "none", keep |-> FALSE, line |-> t]
        ELSE IF HeaderFooterRule(t, ignore_options)
             THEN [exc |-> "none", keep |-> FALSE, line |-> t]
             ELSE [exc |-> "none", keep |-> TRUE, line |-> t]

\* One iteration of the loop: [exc, keep, line].
ProcessLine(line, ignore_options) ==
    IF _is_page_marker(line)
    THEN [exc |-> "none", keep |-> TRUE, line |-> line]
    ELSE LET t == TransformLine(line, ignore_options)
             p == PatternRule(t, ignore_options)
         IN  IF p.exc # "none" THEN [exc |-> p.exc, keep |-> FALSE, line |-> t]
             ELSE IF p.drop THEN [exc |-> "none", keep |-> FALSE, line |-> t]
             ELSE IF HeaderFooterRule(t, ignore_options)
                  THEN [exc |-> "none", keep |-> FALSE, line |-> t]
                  ELSE [exc |-> "none", keep |-> TRUE, line |-> t]

\* The patterns that one iteration of the loop has re compile.
LineCompiles(line, ignore_options) ==
    IF _is_page_marker(line) THEN {}
    ELSE LET t == TransformLine(line, ignore_options)
             p == PatternRule(t, ignore_options)
         IN  UserPatternCompiled(t, ignore_options)
             \cup (IF p.exc = "none" /\ ~p.drop
                   THEN FurniturePatternsCompiled(t, ignore_options) ELSE {})

RECURSIVE CompiledLoop(_, _, _, _)
\* The loop of apply_ignore_rules from line k on, as the cache of re sees
\* it: the patterns compiled for each line, up to the first that raises.
CompiledLoop(lines, k, ignore_options, compiled) ==
    IF k > Len(lines) THEN compiled
    ELSE IF ProcessLine(lines[k], ignore_options).exc # "none"
    THEN compiled \cup LineCompiles(lines[k], ignore_options)
    ELSE CompiledLoop(lines, k + 1, ignore_options,
                      compiled \cup LineCompiles(lines[k], ignore_options))

\* The patterns that apply_ignore_rules(lines, ignore_options) has re
\* compile.
PatternsCompiled(lines, ignore_options) == CompiledLoop(lines, 1, ignore_options, {})

RECURSIVE IgnoreLoop_Prepend(_, _, _, _)
\* The loop with result.insert(0, line) in place of result.append(line).
IgnoreLoop_Prepend(lines, ignore_options, k, result) ==
    IF k > Len(lines) THEN [exc |-> "none", result |-> result]
    ELSE LET r == ProcessLine(lines[k], ignore_options) IN
         IF r.exc # "none" THEN [exc |-> r.exc, result |-> <<>>]
         ELSE IgnoreLoop_Prepend(lines, ignore_options, k + 1,
                                 IF r.keep THEN <<r.line>> \o result ELSE result)

RECURSIVE IgnoreLoop(_, _, _, _)
\* The for loop of apply_ignore_rules from position k with the given result.
IgnoreLoop(lines, ignore_options, k, result) ==
    IF k > Len(lines) THEN [exc |-> "none", result |-> result]
    ELSE LET r == ProcessLine(lines[k], ignore_options) IN
         IF r.exc # "none" THEN [exc |-> r.exc, result |-> <<>>]
         ELSE IgnoreLoop(lines, ignore_options, k + 1,
                         IF r.keep THEN Append(result, r.line) ELSE result)

\* apply_ignore_rules(lines, ignore_options): [exc, result].
apply_ignore_rules(lines, ignore_options) ==
    IgnoreLoop(lines, ignore_options, 1, <<>>)

(***************************************************************************)
(* difflib.SequenceMatcher(None, a, b) as compute_diff and                 *)
(* compute_word_diffs use it: isjunk is None, and the autojunk heuristic   *)
(* is off (autojunk=False) or out of reach (fewer than 200 elements), so   *)
(* no element of b is junk or popular.  Indices are 0-based as in the      *)
(* library; element i of a Python list is a[i + 1] here.                   *)
(***************************************************************************)
RECURSIVE RunLen(_, _, _, _, _, _)
\* newj2len[j] in iteration i of find_longest_match: the length of the run
\* of equal elements ending at a[i], b[j] and lying inside the window.
RunLen(a, b, alo, blo, i, j) ==
    IF i < alo \/ j < blo THEN 0
    ELSE IF a[i + 1] # b[j + 1] THEN 0
    ELSE RunLen(a, b, alo, blo, i - 1, j - 1) + 1

RECURSIVE LongestScan(_, _, _, _, _, _, _, _, _)
\* The nested loops of find_longest_match: i ascending, and for each i the
\* positions j of a[i] in b ascending; best = <<besti, bestj, bestsize>>.
LongestScan(a, b, alo, ahi, blo, bhi, i, j, best) ==
    IF i >= ahi THEN best
    ELSE IF j >= bhi THEN LongestScan(a, b, alo, ahi, blo, bhi, i + 1, blo, best)
    ELSE LET k == RunLen(a, b, alo, blo, i, j)
             newbest == IF a[i + 1] = b[j + 1] /\ k > best[3]
                        THEN <<i - k + 1, j - k + 1, k>>
                        ELSE best
         IN  LongestScan(a, b, alo, ahi, blo, bhi, i, j + 1, newbest)

RECURSIVE ExtendBack(_, _, _, _, _)
\* while besti > alo and bestj > blo and a[besti-1] == b[bestj-1]
ExtendBack(a, b, alo, blo, best) ==
    IF best[1] > alo /\ best[2] > blo /\ a[best[1]] = b[best[2]]
    THEN ExtendBack(a, b, alo, blo, <<best[1] - 1, best[2] - 1, best[3] + 1>>)
    ELSE best

RECURSIVE ExtendForward(_, _, _, _, _)
\* while besti+bestsize < ahi and bestj+bestsize < bhi and a[..] == b[..]
ExtendForward(a, b, ahi, bhi, best) ==
    IF /\ best[1] + best[3] < ahi
       /\ best[2] + best[3] < bhi
       /\ a[best[1] + best[3] + 1] = b[best[2] + best[3] + 1]
    THEN ExtendForward(a, b, ahi, bhi, <<best[1], best[2], best[3] + 1>>)
    ELSE best

\* SequenceMatcher.find_longest_match(alo, ahi, blo, bhi): <<i, j, k>>.
find_longest_match(a, b, alo, ahi, blo, bhi) ==
    LET scanned == LongestScan(a, b, alo, ahi, blo, bhi, alo, blo, <<alo, blo, 0>>)
    IN  ExtendForward(a, b, ahi, bhi, ExtendBack(a, b, alo, blo, scanned))

RECURSIVE MatchQueueLoop(_, _, _, _)
\* The while loop of get_matching_blocks; queue is a stack (list.pop()).
MatchQueueLoop(a, b, queue, matching_blocks) ==
    IF queue = <<>> THEN matching_blocks
    ELSE LET q    == queue[Len(queue)]
             rest == SubSeq(queue, 1, Len(queue) - 1)
             alo  == q[1]
             ahi  == q[2]
             blo  == q[3]
             bhi  == q[4]
             x    == find_longest_match(a, b, alo, ahi, blo, bhi)
             i    == x[1]
             j    == x[2]
             k    == x[3]
             q1   == IF alo < i /\ blo < j
                     THEN Append(rest, <<alo, i, blo, j>>) ELSE rest
             q2   == IF i + k < ahi /\ j + k < bhi
                     THEN Append(q1, <<i + k, ahi, j + k, bhi>>) ELSE q1
         IN  IF k # 0
             THEN MatchQueueLoop(a, b, q2, Append(matching_blocks, x))
             ELSE MatchQueueLoop(a, b, rest, matching_blocks)

\* Tuple order of Python on <<i, j, k>> triples.
TripleLess(x, y) ==
    \/ x[1] < y[1]
    \/ x[1] = y[1] /\ x[2] < y[2]
    \/ x[1] = y[1] /\ x[2] = y[2] /\ x[3] < y[3]

RECURSIVE InsertSorted(_, _)
InsertSorted(x, sorted) ==
    IF sorted = <<>> THEN <<x>>
    ELSE IF TripleLess(x, Head(sorted)) THEN <<x>> \o sorted
    ELSE <<Head(sorted)>> \o InsertSorted(x, Tail(sorted))

RECURSIVE SortTriples(_)
\* matching_blocks.sort()
SortTriples(blocks) ==
    IF blocks = <<>> THEN <<>>
    ELSE InsertSorted(Head(blocks), SortTriples(Tail(blocks)))

RECURSIVE CollapseAdjacent(_, _, _, _)
\* The loop that merges adjacent equal blocks; cur = <<i1, j1, k1>>.
CollapseAdjacent(blocks, n, cur, non_adjacent) ==
    IF n > Len(blocks)
    THEN IF cur[3] # 0 THEN Append(non_adjacent, cur) ELSE non_adjacent
    ELSE LET x == blocks[n] IN
         IF cur[1] + cur[3] = x[1] /\ cur[2] + cur[3] = x[2]
         THEN CollapseAdjacent(blocks, n + 1,
                               <<cur[1], cur[2], cur[3] + x[3]>>, non_adjacent)
         ELSE CollapseAdjacent(blocks, n + 1, x,
                               IF cur[3] # 0 THEN Append(non_adjacent, cur)
                               ELSE non_adjacent)

\* get_matching_blocks without the closing sentinel <<la, lb, 0>>.
get_matching_blocks_NoSentinel(a, b) ==
    LET found  == MatchQueueLoop(a, b, << <<0, Len(a), 0, Len(b)>> >>, <<>>)
        sorted == SortTriples(found)
    IN  CollapseAdjacent(sorted, 1, <<0, 0, 0>>, <<>>)

\* SequenceMatcher.get_matching_blocks(): ends with the sentinel <<la, lb, 0>>.
get_matching_blocks(a, b) ==
    LET la     == Len(a)
        lb     == Len(b)
        found  == MatchQueueLoop(a, b, << <<0, la, 0, lb>> >>, <<>>)
        sorted == SortTriples(found)
    IN  Append(CollapseAdjacent(sorted, 1, <<0, 0, 0>>, <<>>), <<la, lb, 0>>)

RECURSIVE OpcodeLoop_SplitReplace(_, _, _, _, _)
\* The loop giving a gap on both sides as a delete followed by an insert.
OpcodeLoop_SplitReplace(blocks, n, i, j, answer) ==
    IF n > Len(blocks) THEN answer
    ELSE LET ai   == blocks[n][1]
             bj   == blocks[n][2]
             size == blocks[n][3]
             a0   == IF i < ai THEN Append(answer, <<"delete", i, ai, j, j>>)
                     ELSE answer
             a1   == IF j < bj THEN Append(a0, <<"insert", ai, ai, j, bj>>)
                     ELSE a0
             a2   == IF size # 0
                     THEN Append(a1, <<"equal", ai, ai + size, bj, bj + size>>)
                     ELSE a1
         IN  OpcodeLoop_SplitReplace(blocks, n + 1, ai + size, bj + size, a2)

RECURSIVE OpcodeLoop_DeleteFirst(_, _, _, _, _)
\* The loop tagging a gap on both sides as a delete of its left range.
OpcodeLoop_DeleteFirst(blocks, n, i, j, answer) ==
    IF n > Len(blocks) THEN answer
    ELSE LET ai   == blocks[n][1]
             bj   == blocks[n][2]
             size == blocks[n][3]
             tag  == IF i < ai THEN "delete"
                     ELSE IF j < bj THEN "insert"
                     ELSE ""
             a1   == IF tag # "" THEN Append(answer, <<tag, i, ai, j, bj>>)
                     ELSE answer
             a2   == IF size # 0
                     THEN Append(a1, <<"equal", ai, ai + size, bj, bj + size>>)
                     ELSE a1
         IN  OpcodeLoop_DeleteFirst(blocks, n + 1, ai + size, bj + size, a2)

RECURSIVE OpcodeLoop(_, _, _, _, _)
\* The loop of get_opcodes over the matching blocks from index n on.
OpcodeLoop(blocks, n, i, j, answer) ==
    IF n > Len(blocks) THEN answer
    ELSE LET ai   == blocks[n][1]
             bj   == blocks[n][2]
             size == blocks[n][3]
             tag  == IF i < ai /\ j < bj THEN "replace"
                     ELSE IF i < ai THEN "delete"
                     ELSE IF j < bj THEN "insert"
                     ELSE ""
             a1   == IF tag # "" THEN Append(answer, <<tag, i, ai, j, bj>>)
                     ELSE answer
             a2   == IF size # 0
                     THEN Append(a1, <<"equal", ai, ai + size, bj, bj + size>>)
                     ELSE a1
         IN  OpcodeLoop(blocks, n + 1, ai + size, bj + size, a2)

\* SequenceMatcher.get_opcodes(): a sequence of <<tag, i1, i2, j1, j2>>.
get_opcodes(a, b) == OpcodeLoop(get_matching_blocks(a, b), 1, 0, 0, <<>>)

(***************************************************************************)
(* compute_word_diffs and compute_diff.                                    *)
(***************************************************************************)
RECURSIVE SpanLoop_InsertBoth(_, _, _, _, _, _)
\* The loop appending the span of an insert opcode to both span lists.
SpanLoop_InsertBoth(opcodes, n, left_words, right_words, left_spans, right_spans) ==
    IF n > Len(opcodes)
    THEN [left_spans |-> left_spans, right_spans |-> right_spans]
    ELSE LET op == opcodes[n][1]
             lt == Join(<<" ">>, Slice(left_words, opcodes[n][2], opcodes[n][3]))
             rt == Join(<<" ">>, Slice(right_words, opcodes[n][4], opcodes[n][5]))
         IN  IF op = "equal"
             THEN SpanLoop_InsertBoth(opcodes, n + 1, left_words, right_words,
                           Append(left_spans, <<lt, "equal">>),
                           Append(right_spans, <<lt, "equal">>))
             ELSE IF op = "delete"
             THEN SpanLoop_InsertBoth(opcodes, n + 1, left_words, right_words,
                           Append(left_spans, <<lt, "delete">>), right_spans)
             ELSE IF op = "insert"
             THEN SpanLoop_InsertBoth(opcodes, n + 1, left_words, right_words,
                           Append(left_spans, <<rt, "insert">>),
                           Append(right_spans, <<rt, "insert">>))
             ELSE SpanLoop_InsertBoth(opcodes, n + 1, left_words, right_words,
                           Append(left_spans, <<lt, "delete">>),
                           Append(right_spans, <<rt, "insert">>))

RECURSIVE SpanLoop(_, _, _, _, _, _)
\* The loop over sm.get_opcodes() that builds left_spans and right_spans.
SpanLoop(opcodes, n, left_words, right_words, left_spans, right_spans) ==
    IF n > Len(opcodes)
    THEN [left_spans |-> left_spans, right_spans |-> right_spans]
    ELSE LET op == opcodes[n][1]
             lt == Join(<<" ">>, Slice(left_words, opcodes[n][2], opcodes[n][3]))
             rt == Join(<<" ">>, Slice(right_words, opcodes[n][4], opcodes[n][5]))
         IN  IF op = "equal"
             THEN SpanLoop(opcodes, n + 1, left_words, right_words,
                           Append(left_spans, <<lt, "equal">>),
                           Append(right_spans, <<lt, "equal">>))
             ELSE IF op = "delete"
             THEN SpanLoop(opcodes, n + 1, left_words, right_words,
                           Append(left_spans, <<lt, "delete">>), right_spans)
             ELSE IF op = "insert"
             THEN SpanLoop(opcodes, n + 1, left_words, right_words,
                           left_spans, Append(right_spans, <<rt, "insert">>))
             ELSE SpanLoop(opcodes, n + 1, left_words, right_words,
                           Append(left_spans, <<lt, "delete">>),
                           Append(right_spans, <<rt, "insert">>))

\* The iteration without str.split(): each line is taken as a single word.
WordDiffEntry_NoSplit(left, right) ==
    SpanLoop(get_opcodes(<<left>>, <<right>>), 1, <<left>>, <<right>>, <<>>, <<>>)

\* One iteration of compute_word_diffs: the entry of the line pair.
WordDiffEntry(left, right) ==
    LET left_words  == Split(left)
        right_words == Split(right)
    IN  SpanLoop(get_opcodes(left_words, right_words), 1,
                 left_words, right_words, <<>>, <<>>)

\* compute_word_diffs pairing the lines with zip(): it stops at the shorter side.
compute_word_diffs_Zip(left_lines, right_lines) ==
    LET min_len == Min2(Len(left_lines), Len(right_lines))
    IN  [i \in 1..min_len |-> WordDiffEntry(left_lines[i], right_lines[i])]

compute_word_diffs(left_lines, right_lines) ==
    LET max_len == Max2(Len(left_lines), Len(right_lines))
    IN  [i \in 1..max_len |->
            WordDiffEntry(IF i <= Len(left_lines) THEN left_lines[i] ELSE <<>>,
                          IF i <= Len(right_lines) THEN right_lines[i] ELSE <<>>)]

RECURSIVE ContentFrom(_, _)
\* [(i, l) for i, l in enumerate(lines) if not _is_page_marker(l)], from k on;
\* i is the 0-based original index.
ContentFrom(lines, k) ==
    IF k > Len(lines) THEN <<>>
    ELSE IF _is_page_marker(lines[k]) THEN ContentFrom(lines, k + 1)
    ELSE << <<k - 1, lines[k]>> >> \o ContentFrom(lines, k + 1)

Content(lines) == ContentFrom(lines, 1)

\* [l for _, l in content]
ContentText(lines) == LET c == Content(lines) IN [k \in 1..Len(c) |-> c[k][2]]

\* BlockPage indexing the page index by the content index, not the original one.
BlockPage_ContentIndex(page_index, content, start) ==
    IF start < Len(content) THEN page_index[start + 1] ELSE None

\* Lines 202-203: the page of the block start, or None.
BlockPage(page_index, content, start) ==
    IF start < Len(content) THEN page_index[content[start + 1][1] + 1] ELSE None

\* MakeBlock slicing the left text by the right range (text_a[j1:j2]).
MakeBlock_RightRangeOnLeft(opcode, text_a, text_b, content_a, content_b, page_index_a, page_index_b) ==
    LET tag  == opcode[1]
        i1   == opcode[2]
        i2   == opcode[3]
        j1   == opcode[4]
        j2   == opcode[5]
        base == [tag         |-> tag,
                 left_start  |-> i1,
                 left_end    |-> i2,
                 right_start |-> j1,
                 right_end   |-> j2,
                 left_lines  |-> Slice(text_a, j1, Min2(j2, Len(text_a))),
                 right_lines |-> Slice(text_b, j1, j2),
                 left_page   |-> BlockPage(page_index_a, content_a, i1),
                 right_page  |-> BlockPage(page_index_b, content_b, j1)]
    IN  IF tag = "replace"
        THEN [f \in DOMAIN base \cup {"word_diffs"} |->
                 IF f = "word_diffs"
                 THEN compute_word_diffs(Slice(text_a, i1, i2), Slice(text_b, j1, j2))
                 ELSE base[f]]
        ELSE base

\* Lines 193-218: the block built for one opcode.
MakeBlock(opcode, text_a, text_b, content_a, content_b, page_index_a, page_index_b) ==
    LET tag  == opcode[1]
        i1   == opcode[2]
        i2   == opcode[3]
        j1   == opcode[4]
        j2   == opcode[5]
        base == [tag         |-> tag,
                 left_start  |-> i1,
                 left_end    |-> i2,
                 right_start |-> j1,
                 right_end   |-> j2,
                 left_lines  |-> Slice(text_a, i1, i2),
                 right_lines |-> Slice(text_b, j1, j2),
                 left_page   |-> BlockPage(page_index_a, content_a, i1),
                 right_page  |-> BlockPage(page_index_b, content_b, j1)]
    IN  IF tag = "replace"
        THEN [f \in DOMAIN base \cup {"word_diffs"} |->
                 IF f = "word_diffs"
                 THEN compute_word_diffs(Slice(text_a, i1, i2), Slice(text_b, j1, j2))
                 ELSE base[f]]
        ELSE base

\* AddStats counting a replace block by its left length only.
AddStats_ReplaceLeft(stats, opcode) ==
    LET tag == opcode[1]
        i1  == opcode[2]
        i2  == opcode[3]
        j1  == opcode[4]
        j2  == opcode[5]
    IN  IF tag = "equal" THEN [stats EXCEPT !.equal = @ + (i2 - i1)]
        ELSE IF tag = "insert" THEN [stats EXCEPT !.insert = @ + (j2 - j1)]
        ELSE IF tag = "delete" THEN [stats EXCEPT !.delete = @ + (i2 - i1)]
        ELSE IF tag = "replace" THEN [stats EXCEPT !.replace = @ + (i2 - i1)]
             ELSE stats

\* AddStats counting an insert block by its (empty) left range.
AddStats_InsertLeft(stats, opcode) ==
    LET tag == opcode[1]
        i1  == opcode[2]
        i2  == opcode[3]
        j1  == opcode[4]
        j2  == opcode[5]
    IN  IF tag = "equal" THEN [stats EXCEPT !.equal = @ + (i2 - i1)]
        ELSE IF tag = "insert" THEN [stats EXCEPT !.insert = @ + (i2 - i1)]
        ELSE IF tag = "delete" THEN [stats EXCEPT !.delete = @ + (i2 - i1)]
        ELSE IF tag = "replace"
             THEN [stats EXCEPT !.replace = @ + Max2(i2 - i1, j2 - j1)]
             ELSE stats

\* Lines 220-228: the statistics after one more opcode.
AddStats(stats, opcode) ==
    LET tag == opcode[1]
        i1  == opcode[2]
        i2  == opcode[3]
        j1  == opcode[4]
        j2  == opcode[5]
    IN  IF tag = "equal" THEN [stats EXCEPT !.equal = @ + (i2 - i1)]
        ELSE IF tag = "insert" THEN [stats EXCEPT !.insert = @ + (j2 - j1)]
        ELSE IF tag = "delete" THEN [stats EXCEPT !.delete = @ + (i2 - i1)]
        ELSE IF tag = "replace"
             THEN [stats EXCEPT !.replace = @ + Max2(i2 - i1, j2 - j1)]
             ELSE stats

RECURSIVE StatsLoop(_, _, _)
StatsLoop(opcodes, n, stats) ==
    IF n > Len(opcodes) THEN stats
    ELSE StatsLoop(opcodes, n + 1, AddStats(stats, opcodes[n]))

\* compute_diff(lines_a, lines_b): [diff_blocks, stats].
compute_diff(la, lb) ==
    LET page_index_a == _build_page_index(la)
        page_index_b == _build_page_index(lb)
        content_a    == Content(la)
        content_b    == Content(lb)
        text_a       == ContentText(la)
        text_b       == ContentText(lb)
        opcodes      == get_opcodes(text_a, text_b)
    IN  [diff_blocks |->
            [n \in 1..Len(opcodes) |->
                MakeBlock(opcodes[n], text_a, text_b, content_a, content_b,
                          page_index_a, page_index_b)],
         stats |->
            StatsLoop(opcodes, 1, [equal |-> 0, insert |-> 0, delete |-> 0, replace |-> 0])]

(***************************************************************************)
(* compare_metadata.  A metadata map is a function from keys (strings) to  *)
(* values; a value is a str or an int (page_count), tagged by its kind.    *)
(***************************************************************************)
StrValue(chars) == [kind |-> "str", v |-> chars]

IntValue(n) == [kind |-> "int", v |-> n]

RECURSIVE ToDecimal(_)
\* str(n) for an int n >= 0: its decimal digits.
ToDecimal(n) ==
    IF n < 10 THEN <<Digits[n + 1]>>
    ELSE Append(ToDecimal(n \div 10), Digits[(n % 10) + 1])

\* str(value)
Str(value) == IF value.kind = "int" THEN ToDecimal(value.v) ELSE value.v

\* The characters of the keys in code-point order.
CodePointOrder == Digits \o UpperCase \o <<"_">> \o LowerCase

CodePoint(c) == CHOOSE k \in 1..Len(CodePointOrder) : CodePointOrder[k] = c

RECURSIVE StrLess(_, _)
\* s < t on Python strings: lexicographic by code point.
StrLess(s, t) ==
    IF t = <<>> THEN FALSE
    ELSE IF s = <<>> THEN TRUE
    ELSE IF s[1] = t[1] THEN StrLess(Tail(s), Tail(t))
    ELSE CodePoint(s[1]) < CodePoint(t[1])

RECURSIVE SortedKeys(_)
\* sorted(keys) on a set of strings.
SortedKeys(keys) ==
    IF keys = {} THEN <<>>
    ELSE LET least == CHOOSE k \in keys : \A x \in keys \ {k} : StrLess(k, x)
         IN  <<least>> \o SortedKeys(keys \ {least})

\* meta.get(key, "") followed by str().
GetStr(meta, key) == IF key \in DOMAIN meta THEN Str(meta[key]) ELSE <<>>

RECURSIVE MetadataLoop_AppendAll(_, _, _, _, _)
\* The loop without the test val_a != val_b: every key gets an entry.
MetadataLoop_AppendAll(all_keys, n, meta_a, meta_b, diffs) ==
    IF n > Len(all_keys) THEN diffs
    ELSE MetadataLoop_AppendAll(all_keys, n + 1, meta_a, meta_b,
             Append(diffs, [field   |-> all_keys[n],
                            value_a |-> GetStr(meta_a, all_keys[n]),
                            value_b |-> GetStr(meta_b, all_keys[n])]))

RECURSIVE MetadataLoop(_, _, _, _, _)
\* Lines 286-290: the loop over all_keys from position n with the given diffs.
MetadataLoop(all_keys, n, meta_a, meta_b, diffs) ==
    IF n > Len(all_keys) THEN diffs
    ELSE LET key   == all_keys[n]
             val_a == GetStr(meta_a, key)
             val_b == GetStr(meta_b, key)
         IN  MetadataLoop(all_keys, n + 1, meta_a, meta_b,
                 IF val_a # val_b
                 THEN Append(diffs, [field |-> key, value_a |-> val_a, value_b |-> val_b])
                 ELSE diffs)

\* compare_metadata(meta_a, meta_b)
compare_metadata(meta_a, meta_b) ==
    MetadataLoop(SortedKeys(DOMAIN meta_a \cup DOMAIN meta_b), 1, meta_a, meta_b, <<>>)

(***************************************************************************)
(* generate_report.  The report is the list `lines` that the function      *)
(* joins with "\n": one record per line, its kind naming the fixed text    *)
(* of the line and its other fields holding the interpolated values.       *)
(***************************************************************************)
\* additions[:10], deletions[:10], modifications[:10]
ListingCap == 10

\* right_lines[:3] / left_lines[:3] and the cut at 200 characters.
PreviewLines == 3

PreviewCap == 200

\* left_lines[:2] / right_lines[:2] and the cut at 150 characters.
ModifiedPreviewLines == 2

ModifiedPreviewCap == 150

TextLine(kind) == [kind |-> kind]

BlankLine == TextLine("")

CountLine(kind, count) == [kind |-> kind, count |-> count]

\* " ".join(block_lines[:n]), cut to cap characters and an ellipsis.
Preview(block_lines, n, cap) ==
    LET preview == Join(<<" ">>, Slice(block_lines, 0, Min2(n, Len(block_lines))))
    IN  IF Len(preview) > cap
        THEN Append(SubSeq(preview, 1, cap), "ELLIPSIS")
        ELSE preview

\* Lines 376-379: " (page N)" when the block has a page on that side.
_page_label(block, side) ==
    LET pg == IF side = "right" THEN block.right_page ELSE block.left_page
    IN  IF pg # None /\ pg # 0
        THEN <<" ", "(", "p", "a", "g", "e", " ">> \o ToDecimal(pg) \o <<")">>
        ELSE <<>>

\* pct > threshold without the guard for total_lines = 0: a change over no
\* line counts as a percentage above every threshold.
PctGreater_NoZeroGuard(changed, total_lines, threshold) ==
    changed * 100 > threshold * total_lines

\* pct > threshold for pct = (changed / total_lines * 100) if total_lines
\* else 0.  The double arithmetic of the division and the product agrees
\* with the exact comparison for the thresholds 10 and 30.
PctGreater(changed, total_lines, threshold) ==
    /\ total_lines # 0
    /\ changed * 100 > threshold * total_lines

\* f"{pct:.1f}": pct to one decimal, the nearest tenth, ties to even (the
\* double arithmetic gives this digit string for every total_lines below 80).
FormatPct(changed, total_lines) ==
    LET q      == IF total_lines = 0 THEN 0 ELSE (changed * 1000) \div total_lines
        r      == IF total_lines = 0 THEN 0 ELSE (changed * 1000) % total_lines
        tenths == IF 2 * r > total_lines \/ (2 * r = total_lines /\ q % 2 = 1)
                  THEN q + 1 ELSE q
    IN  ToDecimal(tenths \div 10) \o <<".">> \o ToDecimal(tenths % 10)

\* Lines 329-354: the header and the statistics table.
ReportHead(stats, name_a, name_b) ==
    LET total_lines == stats.equal + stats.delete + stats.replace
        changed     == stats.insert + stats.delete + stats.replace
    IN  << TextLine("# PDF Comparison Report"),
           BlankLine,
           TextLine("**Date:**"),
           BlankLine,
           [kind |-> "**Document A:**", name |-> name_a],
           [kind |-> "**Document B:**", name |-> name_b],
           BlankLine,
           TextLine("---"),
           BlankLine,
           TextLine("## Summary Statistics"),
           BlankLine,
           TextLine("| Metric | Count |"),
           TextLine("|--------|-------|"),
           CountLine("| Unchanged lines |", stats.equal),
           CountLine("| Inserted lines |", stats.insert),
           CountLine("| Deleted lines |", stats.delete),
           CountLine("| Modified lines |", stats.replace),
           CountLine("| **Total changed** |", changed),
           [kind |-> "| Change percentage |", pct |-> FormatPct(changed, total_lines)],
           BlankLine,
           TextLine("---"),
           BlankLine,
           TextLine("## Impact Analysis"),
           BlankLine >>

\* Severity with inclusive thresholds: pct >= 30 is High, pct >= 10 is Medium.
SeverityOf_Inclusive(changed, total_lines) ==
    IF total_lines # 0 /\ changed * 100 >= 30 * total_lines THEN "**High**"
    ELSE IF total_lines # 0 /\ changed * 100 >= 10 * total_lines THEN "**Medium**"
    ELSE "**Low**"

\* Lines 360-366: the severity of the change percentage.
SeverityOf(changed, total_lines) ==
    IF PctGreater(changed, total_lines, 30) THEN "**High**"
    ELSE IF PctGreater(changed, total_lines, 10) THEN "**Medium**"
    ELSE "**Low**"

\* The blocks of diff_blocks with the given tag, in order (lines 372-374).
BlocksTagged(diff_blocks, tag) == SelectSeq(diff_blocks, LAMBDA b : b.tag = tag)

\* The trailing line that counts every block of the category.
MoreLine_Total(n) ==
    IF n > ListingCap THEN <<CountLine("   *(and N more...)*", n)>> ELSE <<>>

\* "   *(and N more...)*" when more than ListingCap blocks exist.
MoreLine(n) ==
    IF n > ListingCap
    THEN <<CountLine("   *(and N more...)*", n - ListingCap)>>
    ELSE <<>>

\* Lines 388-392 and 405-409: the numbered items of additions or deletions.
NearLineItems(blocks, side) ==
    [i \in 1..Min2(Len(blocks), ListingCap) |->
        LET b == blocks[i] IN
        [kind       |-> "N. Near line",
         number     |-> i,
         line       |-> (IF side = "right" THEN b.right_start ELSE b.left_start) + 1,
         page_label |-> _page_label(b, side),
         preview    |-> Preview(IF side = "right" THEN b.right_lines ELSE b.left_lines,
                                PreviewLines, PreviewCap)]]

\* Lines 382-396: the New Content section.
NewContent(additions) ==
    IF additions = <<>> THEN <<>>
    ELSE << CountLine("### New Content (N section(s) added)", Len(additions)),
            BlankLine,
            TextLine("New content was introduced in Document B"),
            BlankLine >>
         \o NearLineItems(additions, "right")
         \o MoreLine(Len(additions))
         \o <<BlankLine>>

\* Lines 399-413: the Removed Content section.
RemovedContent(deletions) ==
    IF deletions = <<>> THEN <<>>
    ELSE << CountLine("### Removed Content (N section(s) deleted)", Len(deletions)),
            BlankLine,
            TextLine("Content present in Document A has been removed"),
            BlankLine >>
         \o NearLineItems(deletions, "left")
         \o MoreLine(Len(deletions))
         \o <<BlankLine>>

\* Lines 422-431: the three lines of one modification.
ModifiedItem(b, i) ==
    << [kind       |-> "N. Line",
        number     |-> i,
        line       |-> b.left_start + 1,
        page_label |-> _page_label(b, "left")],
       [kind    |-> "   - **Was:**",
        preview |-> Preview(b.left_lines, ModifiedPreviewLines, ModifiedPreviewCap)],
       [kind    |-> "   - **Now:**",
        preview |-> Preview(b.right_lines, ModifiedPreviewLines, ModifiedPreviewCap)] >>

\* Lines 416-435: the Modified Content section.
ModifiedContent(modifications) ==
    IF modifications = <<>> THEN <<>>
    ELSE << CountLine("### Modified Content (N section(s) changed)", Len(modifications)),
            BlankLine,
            TextLine("Existing text was altered between the two versions"),
            BlankLine >>
         \o Concat([i \in 1..Min2(Len(modifications), ListingCap) |->
                       ModifiedItem(modifications[i], i)])
         \o MoreLine(Len(modifications))
         \o <<BlankLine>>

\* The bullets with the one for additions ahead of the one for deletions.
Consequences_AdditionsFirst(additions, deletions, modifications, changed, total_lines) ==
    (IF additions # <<>> THEN <<TextLine("- **Added content**")>> ELSE <<>>)
    \o (IF deletions # <<>> THEN <<TextLine("- **Removed content**")>> ELSE <<>>)
    \o (IF modifications # <<>> THEN <<TextLine("- **Modified sections**")>> ELSE <<>>)
    \o (IF PctGreater(changed, total_lines, 30)
        THEN <<TextLine("- Given the **high volume of changes**")>> ELSE <<>>)

\* Lines 445-463: the list `consequences`.
Consequences(additions, deletions, modifications, changed, total_lines) ==
    (IF deletions # <<>> THEN <<TextLine("- **Removed content**")>> ELSE <<>>)
    \o (IF additions # <<>> THEN <<TextLine("- **Added content**")>> ELSE <<>>)
    \o (IF modifications # <<>> THEN <<TextLine("- **Modified sections**")>> ELSE <<>>)
    \o (IF PctGreater(changed, total_lines, 30)
        THEN <<TextLine("- Given the **high volume of changes**")>> ELSE <<>>)

\* Lines 360-468: the report after the early exit.
ReportBody(diff_blocks, stats) ==
    LET total_lines   == stats.equal + stats.delete + stats.replace
        changed       == stats.insert + stats.delete + stats.replace
        additions     == BlocksTagged(diff_blocks, "insert")
        deletions     == BlocksTagged(diff_blocks, "delete")
        modifications == BlocksTagged(diff_blocks, "replace")
    IN  << [kind |-> "**Overall severity:**", severity |-> SeverityOf(changed, total_lines)],
           BlankLine >>
        \o NewContent(additions)
        \o RemovedContent(deletions)
        \o ModifiedContent(modifications)
        \o << TextLine("---"), BlankLine, TextLine("## Consequences"), BlankLine >>
        \o Consequences(additions, deletions, modifications, changed, total_lines)
        \o << BlankLine, TextLine("---"), TextLine("*Report generated by PDFCompare.*") >>

\* generate_report without the return of line 358.
generate_report_NoEarlyReturn(diff_blocks, stats, name_a, name_b) ==
    IF stats.insert + stats.delete + stats.replace = 0
    THEN Append(ReportHead(stats, name_a, name_b), TextLine("The two documents are **identical**"))
         \o ReportBody(diff_blocks, stats)
    ELSE ReportHead(stats, name_a, name_b) \o ReportBody(diff_blocks, stats)

\* generate_report(diff_blocks, stats, name_a, name_b): the list `lines`.
generate_report(diff_blocks, stats, name_a, name_b) ==
    IF stats.insert + stats.delete + stats.replace = 0
    THEN Append(ReportHead(stats, name_a, name_b), TextLine("The two documents are **identical**"))
    ELSE ReportHead(stats, name_a, name_b) \o ReportBody(diff_blocks, stats)

(***************************************************************************)
(* generate_unified_diff (lines 298-308) over difflib.unified_diff, whose  *)
(* hunks are the groups of SequenceMatcher.get_grouped_opcodes.            *)
(***************************************************************************)
\* The default n=3 of difflib.unified_diff: the lines of context of a hunk.
UnifiedContext == 3

\* get_grouped_opcodes: the opcodes, or one empty equal opcode, with a
\* leading and a trailing equal opcode cut down to n lines.
TrimEnds(codes, n) ==
    LET c0    == IF codes = <<>> THEN <<<<"equal", 0, 1, 0, 1>>>> ELSE codes
        first == c0[1]
        c1    == IF first[1] = "equal"
                 THEN [c0 EXCEPT ![1] = <<"equal", Max2(first[2], first[3] - n), first[3],
                                          Max2(first[4], first[5] - n), first[5]>>]
                 ELSE c0
        last  == c1[Len(c1)]
    IN  IF last[1] = "equal"
        THEN [c1 EXCEPT ![Len(c1)] = <<"equal", last[2], Min2(last[3], last[2] + n),
                                       last[4], Min2(last[5], last[4] + n)>>]
        ELSE c1

RECURSIVE GroupLoop(_, _, _, _, _)
\* get_grouped_opcodes: a group ends at an equal opcode of more than 2n
\* lines; a last group of one equal opcode is not yielded.
GroupLoop(codes, k, n, group, groups) ==
    IF k > Len(codes)
    THEN IF group # <<>> /\ ~(Len(group) = 1 /\ group[1][1] = "equal")
         THEN Append(groups, group)
         ELSE groups
    ELSE LET c == codes[k]
         IN  IF c[1] = "equal" /\ c[3] - c[2] > n + n
             THEN GroupLoop(codes, k + 1, n,
                     <<<<"equal", Max2(c[2], c[3] - n), c[3], Max2(c[4], c[5] - n), c[5]>>>>,
                     Append(groups,
                            Append(group, <<"equal", c[2], Min2(c[3], c[2] + n),
                                            c[4], Min2(c[5], c[4] + n)>>)))
             ELSE GroupLoop(codes, k + 1, n, Append(group, c), groups)

get_grouped_opcodes(codes, n) == GroupLoop(TrimEnds(codes, n), 1, n, <<>>, <<>>)

\* difflib._format_range_unified(start, stop)
_format_range_unified(start, stop) ==
    LET length == stop - start
    IN  IF length = 1 THEN ToDecimal(start + 1)
        ELSE ToDecimal(IF length = 0 THEN start ELSE start + 1)
                 \o <<",">> \o ToDecimal(length)

\* The lines of a slice, each behind a one-character prefix.
PrefixLines(prefix, lines) == [i \in 1..Len(lines) |-> <<prefix>> \o lines[i]]

\* unified_diff: the lines one opcode of a hunk contributes.
OpcodeLines(c, a, b) ==
    IF c[1] = "equal" THEN PrefixLines(" ", Slice(a, c[2], c[3]))
    ELSE (IF c[1] \in {"replace", "delete"}
          THEN PrefixLines("-", Slice(a, c[2], c[3])) ELSE <<>>)
         \o (IF c[1] \in {"replace", "insert"}
             THEN PrefixLines("+", Slice(b, c[4], c[5])) ELSE <<>>)

\* unified_diff: the @@ line of a hunk and the lines of its opcodes.
HunkLines(group, a, b) ==
    LET first == group[1]
        last  == group[Len(group)]
    IN  <<<<"@", "@", " ", "-">> \o _format_range_unified(first[2], last[3])
            \o <<" ", "+">> \o _format_range_unified(first[4], last[5])
            \o <<" ", "@", "@">>>>
        \o Concat([k \in 1..Len(group) |-> OpcodeLines(group[k], a, b)])

\* unified_diff(a, b, fromfile, tofile, lineterm=""), from the opcodes of
\* (a, b): the two file lines before the first hunk, then the hunks.
UnifiedLines(codes, a, b, fromfile, tofile) ==
    LET groups == get_grouped_opcodes(codes, UnifiedContext)
    IN  IF groups = <<>> THEN <<>>
        ELSE <<<<"-", "-", "-", " ">> \o fromfile, <<"+", "+", "+", " ">> \o tofile>>
             \o Concat([g \in 1..Len(groups) |-> HunkLines(groups[g], a, b)])

\* unified_diff builds SequenceMatcher(None, a, b) with the default
\* autojunk, which leaves the matching as it is for b of under 200 lines.
unified_diff(a, b, fromfile, tofile) ==
    UnifiedLines(get_opcodes(a, b), a, b, fromfile, tofile)

\* Lines 298-308: the unified diff of the lines that are not page markers,
\* as one string, each line of which is a sequence of characters here.
generate_unified_diff_KeepMarkers(la, lb, name_a, name_b) ==
    Join(<<"\n">>, unified_diff(la, lb, name_a, name_b))

generate_unified_diff(la, lb, name_a, name_b) ==
    LET clean_a == SelectSeq(la, LAMBDA l : ~_is_page_marker(l))
        clean_b == SelectSeq(lb, LAMBDA l : ~_is_page_marker(l))
    IN  Join(<<"\n">>, unified_diff(clean_a, clean_b, name_a, name_b))

(***************************************************************************)
(* generate_llm_report (llm.py).  A text of the prompt is a sequence of    *)
(* runs [part, len]: len characters that come of the named part.           *)
(***************************************************************************)
TextRun(part, len) == [part |-> part, len |-> len]

RECURSIVE TextLen(_)
\* len(text)
TextLen(text) == IF text = <<>> THEN 0 ELSE Head(text).len + TextLen(Tail(text))

RECURSIVE TextTake(_, _)
\* text[:n]
TextTake(text, n) ==
    IF text = <<>> \/ n <= 0 THEN <<>>
    ELSE IF Head(text).len <= n
         THEN <<Head(text)>> \o TextTake(Tail(text), n - Head(text).len)
         ELSE <<TextRun(Head(text).part, n)>>

\* The characters of the f-string of _build_user_prompt ahead of the diff,
\* without the interpolated names and counts (llm.py:248-256).
PromptHeadChars == 170

\* "\n```\n" : the characters of the f-string after the diff.
PromptFenceChars == 5

\* "\n\n[... diff truncated for length ...]\n"
TruncationMarkerChars == 38

\* llm.py:566
max_diff_chars == 80000

\* llm.py:241-257: the header with the names and the statistics, the diff
\* and the closing fence.
_build_user_prompt(diff_text, stats_arg, name_a, name_b) ==
    <<TextRun("header", PromptHeadChars + Len(name_a) + Len(name_b)
                        + Len(ToDecimal(stats_arg.equal)) + Len(ToDecimal(stats_arg.insert))
                        + Len(ToDecimal(stats_arg.delete)) + Len(ToDecimal(stats_arg.replace)))>>
    \o diff_text
    \o <<TextRun("fence", PromptFenceChars)>>

\* Truncation measured on the diff alone: the diff is cut to the cap and
\* the marker follows it inside the fence.
TruncatePrompt_DiffOnly(diff_text, stats_arg, name_a, name_b) ==
    IF TextLen(diff_text) > max_diff_chars
    THEN _build_user_prompt(TextTake(diff_text, max_diff_chars)
                                \o <<TextRun("marker", TruncationMarkerChars)>>,
                            stats_arg, name_a, name_b)
    ELSE _build_user_prompt(diff_text, stats_arg, name_a, name_b)

\* llm.py:562-568: the user prompt, cut to max_diff_chars characters with
\* the marker appended when it is longer.
TruncatePrompt(diff_text, stats_arg, name_a, name_b) ==
    LET prompt == _build_user_prompt(diff_text, stats_arg, name_a, name_b)
    IN  IF TextLen(prompt) > max_diff_chars
        THEN TextTake(prompt, max_diff_chars) \o <<TextRun("marker", TruncationMarkerChars)>>
        ELSE prompt

\* The keys of _PROVIDERS (llm.py:524-535).
Providers ==
    {"ollama", "openai", "gemini", "lmstudio", "anthropic", "mistral", "groq",
     "deepseek", "kimi", "perplexity"}

\* The providers whose call passes allow_local=True (llm.py:272, 352).
LocalProviders == {"ollama", "lmstudio"}

\* llm.py:174 and 178-182
_ALLOWED_SCHEMES == {"http", "https"}

HostMetadataAWS == <<"1", "6", "9", ".", "2", "5", "4", ".", "1", "6", "9", ".", "2", "5", "4">>

HostMetadataGCP == <<"m", "e", "t", "a", "d", "a", "t", "a", ".", "g", "o", "o", "g", "l", "e", ".", "i", "n", "t", "e", "r", "n", "a", "l">>

HostMetadataAlibaba == <<"1", "0", "0", ".", "1", "0", "0", ".", "1", "0", "0", ".", "2", "0", "0">>

HostLocalhost == <<"l", "o", "c", "a", "l", "h", "o", "s", "t">>

HostPrivate == <<"1", "9", "2", ".", "1", "6", "8", ".", "1", ".", "1">>

HostZero == <<"0", ".", "0", ".", "0", ".", "0">>

HostPublic == <<"a", "p", "i", ".", "e", "x", "a", "m", "p", "l", "e", ".", "c", "o", "m">>

HostReserved == <<"2", "4", "0", ".", "0", ".", "0", ".", "1">>

_BLOCKED_HOSTS == {HostMetadataAWS, HostMetadataGCP, HostMetadataAlibaba}

\* An address with what ipaddress.ip_address tells of it.
Address(ip, reserved, link_local, private, loopback) ==
    [ip |-> ip, is_reserved |-> reserved, is_link_local |-> link_local,
     is_private |-> private, is_loopback |-> loopback]

AddrPublic == Address("93.184.216.34", FALSE, FALSE, FALSE, FALSE)

AddrLoopback == Address("127.0.0.1", FALSE, FALSE, TRUE, TRUE)

AddrLoopback6 == Address("::1", TRUE, FALSE, TRUE, TRUE)

AddrPrivate == Address("192.168.1.1", FALSE, FALSE, TRUE, FALSE)

AddrLinkLocal == Address("169.254.169.254", FALSE, TRUE, TRUE, FALSE)

AddrReserved == Address("240.0.0.1", TRUE, FALSE, TRUE, FALSE)

AddrAlibaba == Address("100.100.100.200", FALSE, FALSE, FALSE, FALSE)

\* socket.gaierror in place of an answer.
GaiError == {[error |-> "gaierror"]}

\* getaddrinfo has not been called.
NotResolved == {[error |-> "unresolved"]}

\* What socket.getaddrinfo may answer for the host name: the address of an
\* address literal; for a name, what its name servers hold at that moment.
Resolutions(hostname) ==
    IF hostname = HostMetadataAWS THEN {{AddrLinkLocal}}
    ELSE IF hostname = HostMetadataAlibaba THEN {{AddrAlibaba}}
    ELSE IF hostname = HostPrivate THEN {{AddrPrivate}}
    ELSE IF hostname = HostReserved THEN {{AddrReserved}}
    ELSE IF hostname = HostZero THEN {{Address("0.0.0.0", FALSE, FALSE, TRUE, FALSE)}}
    ELSE IF hostname = HostLocalhost THEN {{AddrLoopback}, {AddrLoopback6, AddrLoopback}}
    ELSE IF hostname = HostMetadataGCP THEN {{AddrLinkLocal}, GaiError}
    ELSE {{AddrPublic}, {AddrPublic, AddrPrivate}, {AddrLoopback}, {AddrLinkLocal},
          {AddrReserved}, {AddrAlibaba}, GaiError}

\* The parts of a URL that urlparse gives: scheme, hostname, fragment; the
\* rest of the URL is its tail.
Url(scheme, hostname, fragment, tail) ==
    [scheme |-> scheme, hostname |-> hostname, fragment |-> fragment, tail |-> tail]

\* The default endpoint of each provider call.
DefaultEndpoint(provider) ==
    IF provider \in LocalProviders
    THEN Url("http", HostLocalhost, "", IF provider = "ollama" THEN "" ELSE "/v1/chat/completions")
    ELSE Url("https", HostPublic, "", "/v1")

\* config.get("endpoint", default)
NoEndpoint == [scheme |-> "absent"]

\* The URL that the call of the provider validates and requests: the
\* endpoint of the config or the default; _call_ollama appends "/api/chat"
\* (llm.py:270-271), which lands in the fragment when there is one.
EndpointUrl(provider, endpoint) ==
    LET base == IF endpoint = NoEndpoint THEN DefaultEndpoint(provider) ELSE endpoint
    IN  IF provider = "ollama"
        THEN [base EXCEPT !.tail = "/api/chat"]
        ELSE base

\* llm.py:211-222: the message of the ValueError raised ahead of the name
\* resolution, or "none".
ValidateSyntax(url) ==
    IF url.fragment # ""
    THEN "Fragment identifiers are not allowed in LLM endpoint URLs"
    ELSE IF url.scheme \notin _ALLOWED_SCHEMES
    THEN "Endpoint scheme must be http or https"
    ELSE IF url.hostname \in _BLOCKED_HOSTS
    THEN "This endpoint address is not allowed"
    ELSE IF url.hostname # <<>> /\ url.hostname[1] = "0"
    THEN "This endpoint address is not allowed"
    ELSE "none"

\* _validate_endpoint that lets every private and loopback address pass.
_validate_endpoint_AllowLocal(url, allow_local, infos) ==
    IF ValidateSyntax(url) # "none" THEN ValidateSyntax(url)
    ELSE IF infos = GaiError THEN "Cannot resolve hostname"
    ELSE IF \E ip \in infos : ip.is_reserved \/ ip.is_link_local
    THEN "This endpoint address is not allowed"
    ELSE "none"

\* llm.py:202-234 with the answer infos of getaddrinfo: the message of the
\* ValueError raised, or "none".
_validate_endpoint(url, allow_local, infos) ==
    IF ValidateSyntax(url) # "none" THEN ValidateSyntax(url)
    ELSE IF infos = GaiError THEN "Cannot resolve hostname"
    ELSE IF \E ip \in infos :
                \/ ip.is_reserved \/ ip.is_link_local
                \/ (~allow_local /\ (ip.is_private \/ ip.is_loopback))
    THEN "This endpoint address is not allowed"
    ELSE "none"

NoLLMRequest == [provider |-> "none"]

NoPeer == [pc |-> "idle"]

\* The status of a response that is no response: urllib.error.URLError.
URLError == -1

Hosts ==
    {HostMetadataAWS, HostMetadataGCP, HostMetadataAlibaba, HostLocalhost,
     HostPrivate, HostZero, HostPublic, HostReserved}

\* The endpoints a config may hold, and none.
EndpointSamples ==
    {NoEndpoint}
    \cup {Url(scheme, hostname, fragment, "") :
            scheme \in {"http", "https", "ftp"}, hostname \in Hosts,
            fragment \in {"", "frag"}}

\* The provider names a request may carry: the ten known and one unknown.
ProviderSamples == Providers \cup {"unknown"}

\* A unified diff of n characters.
DiffText(n) == IF n = 0 THEN <<>> ELSE <<TextRun("diff", n)>>

\* Lengths of unified diffs on both sides of the cap.
DiffLenSamples ==
    {0, 500, max_diff_chars - 200, max_diff_chars - 100, max_diff_chars,
     max_diff_chars + 1, 2 * max_diff_chars}

\* The statuses a server may answer with, and no answer.
StatusSamples == {200, 301, 302, 307, 404, 500, URLError}

(***************************************************************************)
(* The comparison request of compare(): the state of one request.          *)
(***************************************************************************)
VARIABLES
    pc,              \* position in compare(): "start", "filtered", "diffed",
                     \* "unified", "reported", "done", or "failed"
    lines_a,         \* extracted line sequence of document A
    lines_b,         \* extracted line sequence of document B
    ignore_options,  \* the ignore options of the request
    filtered_a,      \* apply_ignore_rules(lines_a, ignore_options)
    filtered_b,      \* apply_ignore_rules(lines_b, ignore_options)
    exc,             \* the exception that left compare(), or "none"
    diff_blocks,     \* first component of compute_diff(filtered_a, filtered_b)
    stats,           \* second component of compute_diff(filtered_a, filtered_b)
    unified,         \* generate_unified_diff(filtered_a, filtered_b, ...)
    match_steps,     \* most matcher steps re.fullmatch spent on one line
    report,          \* the lines of generate_report(diff_blocks, stats, ...)
    meta_a,          \* metadata map of document A
    meta_b,          \* metadata map of document B
    metadata_diff,   \* compare_metadata(meta_a, meta_b)
    rule_pc,         \* position in the loop of apply_ignore_rules(lines_a, ...):
                     \* "idle", "loop", "whitespace", "case", "pattern",
                     \* "header_footer", "append", "returned" or "raised"
    rule_k,          \* number of lines of lines_a the loop has taken
    rule_line,       \* the loop variable line
    rule_result,     \* the list result
    rule_log,        \* the rules that examined line rule_k, in order:
                     \* [rule, seen, outcome]
    re_cache,        \* the patterns in the cache of the re module, which
                     \* every request of the process shares
    peer,            \* a second request of compare() that runs concurrently:
                     \* its position, inputs and results, as a record
    llm_pc,          \* position in generate_llm_report: "idle", "start",
                     \* "prompted", "validated", "responded", "returned"
                     \* or "raised"
    llm_request,     \* its arguments: [provider, endpoint, unified_diff,
                     \* stats, name_a, name_b]
    user_prompt,     \* the user-role message handed to the provider call
    resolved,        \* what getaddrinfo answered to _validate_endpoint
    requests,        \* the HTTP requests issued, in order
    response,        \* the status of the HTTP response, 0 before it
    llm_exc          \* the message of the exception raised, or "none"

request_vars ==
    <<pc, lines_a, lines_b, ignore_options, filtered_a, filtered_b, exc,
      diff_blocks, stats, unified, match_steps, report, meta_a, meta_b,
      metadata_diff>>

rule_vars == <<rule_pc, rule_k, rule_line, rule_result, rule_log>>

llm_vars == <<llm_pc, llm_request, user_prompt, resolved, requests, response, llm_exc>>

\* The variables that the stages of this request of compare() never touch.
aside_vars == <<rule_vars, llm_vars, peer>>

outside_rules == <<request_vars, llm_vars, peer>>

outside_llm == <<request_vars, rule_vars, peer, re_cache>>

outside_peer == <<request_vars, rule_vars, llm_vars>>

vars == <<request_vars, rule_vars, llm_vars, peer, re_cache>>

\* Sample lines.  A page marker is PAGE_MARKER_PREFIX followed by the decimal
\* page number, as extract_text_and_metadata writes it.
MarkerPage2 == PAGE_MARKER_PREFIX \o <<"2">>

MarkerPage12 == PAGE_MARKER_PREFIX \o <<"1", "2">>

LineAB == <<"a", " ", "b">>

LineAC == <<"a", " ", "c">>

\* " A \t b " : three whitespace characters in a row, an upper-case letter.
LineSpacedUpper == <<" ", "A", " ", "\t", " ", "b", " ">>

LinePageNo == <<"-", " ", "7">>

\* Thirty "a" followed by "b": the line of test_ignore_rules_regex_timeout.
LineRunaway == [k \in 1..31 |-> IF k <= 30 THEN "a" ELSE "b"]

LineAAA == <<"a", "a", "a">>

\* "Page 3 of 10"
LinePage3Of10 == <<"P", "a", "g", "e", " ", "3", " ", "o", "f", " ", "1", "0">>

\* "Page 3 Summary"
LinePage3Summary ==
    <<"P", "a", "g", "e", " ", "3", " ", "S", "u", "m", "m", "a", "r", "y">>

\* " PAGE \t 4 " : upper case, a run of whitespace, surrounding whitespace.
LinePage4 == <<" ", "P", "A", "G", "E", " ", "\t", " ", "4", " ">>

\* "Page3" : no whitespace between the word and the number.
LinePage3Glued == <<"P", "a", "g", "e", "3">>

\* "" : a blank line of the page text.
LineBlank == <<>>

\* "a  x c" : three words, two spaces after the first.
LineAXC == <<"a", " ", " ", "x", " ", "c">>

\* "a b c"
LineABC == <<"a", " ", "b", " ", "c">>

\* "- 12 -"
LineDashed12 == <<"-", " ", "1", "2", " ", "-">>

\* "1 2" : two runs of digits.
LineTwoNumbers == <<"1", " ", "2">>

DiffPool == {MarkerPage2, MarkerPage12, LineAB, LineAC}

IgnorePool == {MarkerPage12, LineSpacedUpper, LineAB, LinePageNo}

RegexPool == {MarkerPage12, LineRunaway, LineAAA, LineAB}

WordPool == {LineAB, LineABC, LineAXC, LineSpacedUpper, LineBlank}

FurniturePool ==
    {MarkerPage12, LinePage3Of10, LinePage3Summary, LinePage4, LinePage3Glued,
     LineDashed12, LineTwoNumbers}

FurnitureOptions ==
    [ignore_whitespace : BOOLEAN, ignore_case : BOOLEAN,
     ignore_headers_footers : BOOLEAN, ignore_pattern : {PatNone}]

RegexOptions ==
    [ignore_whitespace : BOOLEAN, ignore_case : BOOLEAN,
     ignore_headers_footers : BOOLEAN, ignore_pattern : {PatNested, PatLiteral}]

NoIgnore ==
    [ignore_whitespace |-> FALSE, ignore_case |-> FALSE,
     ignore_headers_footers |-> FALSE, ignore_pattern |-> PatNone]

NoStats == [equal |-> 0, insert |-> 0, delete |-> 0, replace |-> 0]

\* The names of the uploaded files.
NameA == <<"a", ".", "p", "d", "f">>

NameB == <<"b", ".", "p", "d", "f">>

\* The keys of the metadata maps, and the values a key may have: empty,
\* text, text that reads as a number, and the int page counts 0 and 3.
MetaKeySeq ==
    << <<"t", "i", "t", "l", "e">>,
       <<"p", "a", "g", "e", "_", "c", "o", "u", "n", "t">>,
       <<"T", "i", "t", "l", "e">>,
       <<"a", "u", "t", "h", "o", "r">> >>

MetaKeys == {MetaKeySeq[k] : k \in 1..Min2(MaxMetaKeys, Len(MetaKeySeq))}

MetaValues ==
    {StrValue(<<>>), StrValue(<<"x">>), StrValue(<<"3">>), IntValue(3), IntValue(0)}

MetaMaps == UNION {[K -> MetaValues] : K \in SUBSET MetaKeys}

SampleMetaA == (MetaKeySeq[1] :> StrValue(<<"x">>)) @@ (MetaKeySeq[2] :> IntValue(3))

SampleMetaB == (MetaKeySeq[1] :> StrValue(<<>>)) @@ (MetaKeySeq[2] :> IntValue(3))

RulesIdle ==
    /\ rule_pc = "idle"
    /\ rule_k = 0
    /\ rule_line = <<>>
    /\ rule_result = <<>>
    /\ rule_log = <<>>

LLMIdle ==
    /\ llm_pc = "idle"
    /\ llm_request = NoLLMRequest
    /\ user_prompt = <<>>
    /\ resolved = NotResolved
    /\ requests = <<>>
    /\ response = 0
    /\ llm_exc = "none"

PeerIdle == peer = NoPeer

AsideIdle == RulesIdle /\ LLMIdle /\ PeerIdle

InitRequest ==
    /\ re_cache = {}
    /\ pc = "start"
    /\ filtered_a = <<>>
    /\ filtered_b = <<>>
    /\ exc = "none"
    /\ diff_blocks = <<>>
    /\ stats = NoStats
    /\ unified = <<>>
    /\ match_steps = 0
    /\ report = <<>>
    /\ metadata_diff = <<>>

InitCommon == InitRequest /\ AsideIdle

\* Requests without ignore options over marker-bearing documents.
Init ==
    /\ InitCommon
    /\ meta_a = SampleMetaA
    /\ meta_b = SampleMetaB
    /\ lines_a \in SeqsUpTo(DiffPool, MaxLinesA)
    /\ lines_b \in SeqsUpTo(DiffPool, MaxLinesB)
    /\ ignore_options = NoIgnore

\* Requests with every combination of ignore options.
InitIgnore ==
    /\ InitCommon
    /\ meta_a = SampleMetaA
    /\ meta_b = SampleMetaB
    /\ lines_a \in SeqsUpTo(IgnorePool, MaxIgnoreLines)
    /\ lines_b = <<MarkerPage12, LineSpacedUpper>>
    /\ ignore_options \in IgnoreOptions

\* apply_ignore_rules entered on document A, with every combination of
\* ignore options.
InitRules ==
    /\ InitRequest
    /\ meta_a = SampleMetaA
    /\ meta_b = SampleMetaB
    /\ lines_a \in SeqsUpTo(IgnorePool, MaxRuleLines)
    /\ lines_b = <<>>
    /\ ignore_options \in IgnoreOptions
    /\ rule_pc = "loop"
    /\ rule_k = 0
    /\ rule_line = <<>>
    /\ rule_result = <<>>
    /\ rule_log = <<>>
    /\ LLMIdle
    /\ PeerIdle

\* Requests whose ignore_pattern is a valid regular expression, over
\* documents that hold the line the nested pattern runs away on.
InitRegex ==
    /\ InitCommon
    /\ meta_a = SampleMetaA
    /\ meta_b = SampleMetaB
    /\ lines_a \in SeqsUpTo(RegexPool, MaxRegexLines)
    /\ lines_b = <<MarkerPage12, LineAAA, LineAB>>
    /\ ignore_options \in RegexOptions

\* Requests without ignore_pattern over documents that hold page furniture.
InitHeaderFooter ==
    /\ InitCommon
    /\ meta_a = SampleMetaA
    /\ meta_b = SampleMetaB
    /\ lines_a \in SeqsUpTo(FurniturePool, MaxFurnitureLines)
    /\ lines_b = <<MarkerPage12, LinePage3Of10, LineAB>>
    /\ ignore_options \in FurnitureOptions

\* Requests without ignore options over lines of several words.
InitWords ==
    /\ InitCommon
    /\ meta_a = SampleMetaA
    /\ meta_b = SampleMetaB
    /\ lines_a \in SeqsUpTo(WordPool, MaxWordLines)
    /\ lines_b \in SeqsUpTo(WordPool, MaxWordLines)
    /\ ignore_options = NoIgnore

\* The unchanged line ahead of change k, the line that change k takes away,
\* and the line it brings in.
SameLine(k) == <<"s", "a", "m", "e", " ">> \o ToDecimal(k)

OldLine(k) == <<"o", "l", "d", " ">> \o ToDecimal(k)

NewLine(k) == <<"n", "e", "w", " ">> \o ToDecimal(k)

\* The tag of change k: insert, delete and replace take turns while blocks
\* of them remain to be placed.
TagOfChange(nI, nD, nR, k) ==
    LET turn == <<"insert", "delete", "replace", "insert", "delete">>
        left == [insert |-> nI, delete |-> nD, replace |-> nR]
        m    == CHOOSE x \in 0..2 :
                   /\ left[turn[(k % 3) + 1 + x]] > 0
                   /\ \A y \in 0..(x - 1) : left[turn[(k % 3) + 1 + y]] = 0
    IN  turn[(k % 3) + 1 + m]

RECURSIVE LongDocuments(_, _, _, _, _)
\* A pair of documents (content lines a and b) and the opcodes between
\* them, with nI insert, nD delete and nR replace blocks of one line, each
\* after one unchanged line, as SequenceMatcher reports long documents that
\* differ in many places; acc holds what changes 1..k-1 have built.
LongDocuments(nI, nD, nR, k, acc) ==
    IF nI + nD + nR = 0 THEN acc
    ELSE LET tag == TagOfChange(nI, nD, nR, k)
             i   == Len(acc.a) + 1
             j   == Len(acc.b) + 1
             a1  == Append(acc.a, SameLine(k))
             b1  == Append(acc.b, SameLine(k))
             eq  == <<"equal", i - 1, i, j - 1, j>>
         IN  IF tag = "insert"
             THEN LongDocuments(nI - 1, nD, nR, k + 1,
                      [a |-> a1, b |-> Append(b1, NewLine(k)),
                       ops |-> acc.ops \o <<eq, <<"insert", i, i, j, j + 1>> >>])
             ELSE IF tag = "delete"
             THEN LongDocuments(nI, nD - 1, nR, k + 1,
                      [a |-> Append(a1, OldLine(k)), b |-> b1,
                       ops |-> acc.ops \o <<eq, <<"delete", i, i + 1, j, j>> >>])
             ELSE LongDocuments(nI, nD, nR - 1, k + 1,
                      [a |-> Append(a1, OldLine(k)), b |-> Append(b1, NewLine(k)),
                       ops |-> acc.ops \o <<eq, <<"replace", i, i + 1, j, j + 1>> >>])

\* The numbers of blocks of one tag: none, one, as many as a listing shows,
\* and more than that.
TagBlockCounts == {0, 1, ListingCap, MaxTagBlocks}

\* The stats records that generate_report is given on their own.
StatsSamples ==
    [equal : 0..MaxEqualStat, insert : 0..1, delete : 0..1, replace : 0..MaxReplaceStat]

\* compare() after generate_unified_diff, for long documents: diff_blocks
\* as compute_diff builds them from the opcodes, with the stats of the
\* opcodes or, for documents of at most one block per tag, any stats record.
InitReport ==
    /\ AsideIdle
    /\ re_cache = {}
    /\ pc = "unified"
    /\ ignore_options = NoIgnore
    /\ exc = "none"
    /\ match_steps = 0
    /\ report = <<>>
    /\ metadata_diff = <<>>
    /\ meta_a = SampleMetaA
    /\ meta_b = SampleMetaB
    /\ \E nI, nD, nR \in TagBlockCounts :
          LET docs == LongDocuments(nI, nD, nR, 1, [a |-> <<>>, b |-> <<>>, ops |-> <<>>])
              la   == <<MarkerPage2>> \o docs.a
              lb   == <<MarkerPage2>> \o docs.b
              content_a    == Content(la)
              content_b    == Content(lb)
              page_index_a == _build_page_index(la)
              page_index_b == _build_page_index(lb)
          IN  /\ lines_a = la
              /\ lines_b = lb
              /\ filtered_a = la
              /\ filtered_b = lb
              /\ unified = Join(<<"\n">>, UnifiedLines(docs.ops, docs.a, docs.b, NameA, NameB))
              /\ diff_blocks =
                    [n \in 1..Len(docs.ops) |->
                        MakeBlock(docs.ops[n], docs.a, docs.b, content_a, content_b,
                                  page_index_a, page_index_b)]
              /\ \/ stats = StatsLoop(docs.ops, 1, NoStats)
                 \/ /\ nI <= 1 /\ nD <= 1 /\ nR <= 1
                    /\ stats \in StatsSamples

\* The lines "A", "B", "C", "X" and the marker of test_compute_diff_basic.
MarkerPage1 == PAGE_MARKER_PREFIX \o <<"1">>

ChangePool == {<<"A">>, <<"B">>, <<"C">>, <<"X">>}

\* Requests over two documents of the same length, one page each, that
\* differ in exactly one line.
InitChange ==
    /\ InitCommon
    /\ meta_a = SampleMetaA
    /\ meta_b = SampleMetaB
    /\ ignore_options = NoIgnore
    /\ \E text \in SeqsUpTo(ChangePool, MaxChangeLines) :
          \E k \in 1..Len(text) : \E new \in ChangePool \ {text[k]} :
              /\ lines_a = <<MarkerPage1>> \o text
              /\ lines_b = <<MarkerPage1>> \o [text EXCEPT ![k] = new]

\* Requests over two short documents with every pair of metadata maps.
InitMetadata ==
    /\ InitCommon
    /\ lines_a = <<MarkerPage2, LineAB>>
    /\ lines_b = <<MarkerPage2, LineAC>>
    /\ ignore_options = NoIgnore
    /\ meta_a \in MetaMaps
    /\ meta_b \in MetaMaps

\* Lines 557-558: both documents are filtered; an exception leaves compare().
ApplyIgnoreRules ==
    /\ pc = "start"
    /\ \E ra \in {apply_ignore_rules(lines_a, ignore_options)},
          rb \in {apply_ignore_rules(lines_b, ignore_options)},
          sa \in {MaxMatchSteps(lines_a, ignore_options)},
          sb \in {MaxMatchSteps(lines_b, ignore_options)},
          ca \in {PatternsCompiled(lines_a, ignore_options)},
          cb \in {PatternsCompiled(lines_b, ignore_options)} :
           IF ra.exc # "none"
           THEN /\ pc' = "failed"
                /\ exc' = ra.exc
                /\ match_steps' = sa
                /\ re_cache' = re_cache \cup ca
                /\ UNCHANGED <<filtered_a, filtered_b>>
           ELSE IF rb.exc # "none"
           THEN /\ pc' = "failed"
                /\ exc' = rb.exc
                /\ filtered_a' = ra.result
                /\ match_steps' = Max2(sa, sb)
                /\ re_cache' = re_cache \cup ca \cup cb
                /\ UNCHANGED filtered_b
           ELSE /\ pc' = "filtered"
                /\ filtered_a' = ra.result
                /\ filtered_b' = rb.result
                /\ match_steps' = Max2(sa, sb)
                /\ re_cache' = re_cache \cup ca \cup cb
                /\ UNCHANGED exc
    /\ UNCHANGED <<lines_a, lines_b, ignore_options, diff_blocks, stats, unified,
                   report, meta_a, meta_b, metadata_diff>>
    /\ UNCHANGED aside_vars

\* Line 560: diff_blocks, stats = compute_diff(filtered_a, filtered_b)
ComputeDiff ==
    /\ pc = "filtered"
    /\ \E r \in {compute_diff(filtered_a, filtered_b)} :
           /\ diff_blocks' = r.diff_blocks
           /\ stats' = r.stats
    /\ pc' = "diffed"
    /\ UNCHANGED <<lines_a, lines_b, ignore_options, filtered_a, filtered_b, exc,
                   unified, match_steps, report, meta_a, meta_b, metadata_diff>>
    /\ UNCHANGED <<aside_vars, re_cache>>

\* Line 561: unified = generate_unified_diff(filtered_a, filtered_b, name_a, name_b)
GenerateUnifiedDiff ==
    /\ pc = "diffed"
    /\ unified' = generate_unified_diff(filtered_a, filtered_b, NameA, NameB)
    /\ pc' = "unified"
    /\ UNCHANGED <<lines_a, lines_b, ignore_options, filtered_a, filtered_b, exc,
                   diff_blocks, stats, match_steps, report, meta_a, meta_b,
                   metadata_diff>>
    /\ UNCHANGED <<aside_vars, re_cache>>

\* Line 562: report = generate_report(diff_blocks, stats, name_a, name_b)
GenerateReport ==
    /\ pc = "unified"
    /\ report' = generate_report(diff_blocks, stats, NameA, NameB)
    /\ pc' = "reported"
    /\ UNCHANGED <<lines_a, lines_b, ignore_options, filtered_a, filtered_b, exc,
                   diff_blocks, stats, unified, match_steps, meta_a, meta_b,
                   metadata_diff>>
    /\ UNCHANGED <<aside_vars, re_cache>>

\* Line 563: metadata_diff = compare_metadata(meta_a, meta_b)
CompareMetadata ==
    /\ pc = "reported"
    /\ metadata_diff' = compare_metadata(meta_a, meta_b)
    /\ pc' = "done"
    /\ UNCHANGED <<lines_a, lines_b, ignore_options, filtered_a, filtered_b, exc,
                   diff_blocks, stats, unified, match_steps, report, meta_a, meta_b>>
    /\ UNCHANGED <<aside_vars, re_cache>>

Next ==
    \/ ApplyIgnoreRules
    \/ ComputeDiff
    \/ GenerateUnifiedDiff
    \/ GenerateReport
    \/ CompareMetadata

(***************************************************************************)
(* The loop of apply_ignore_rules (lines 116-150) on lines_a, one action   *)
(* per statement of its body.                                              *)
(***************************************************************************)
LogEntry(rule, seen, outcome) == [rule |-> rule, seen |-> seen, outcome |-> outcome]

\* Lines 116-120: the loop takes the next line; a page marker is appended
\* at once and the loop continues.
NextLine ==
    /\ rule_pc = "loop"
    /\ rule_k < Len(lines_a)
    /\ rule_k' = rule_k + 1
    /\ rule_log' = <<>>
    /\ rule_line' = lines_a[rule_k + 1]
    /\ IF _is_page_marker(lines_a[rule_k + 1])
       THEN /\ rule_result' = Append(rule_result, lines_a[rule_k + 1])
            /\ rule_pc' = "loop"
       ELSE /\ rule_pc' = "whitespace"
            /\ UNCHANGED rule_result
    /\ UNCHANGED <<outside_rules, re_cache>>

\* Lines 122-123: line = " ".join(line.split()) under ignore_whitespace.
WhitespaceRule ==
    /\ rule_pc = "whitespace"
    /\ IF ignore_options.ignore_whitespace
       THEN /\ rule_line' = Join(<<" ">>, Split(rule_line))
            /\ rule_log' = Append(rule_log, LogEntry("whitespace", rule_line, "transformed"))
       ELSE UNCHANGED <<rule_line, rule_log>>
    /\ rule_pc' = "case"
    /\ UNCHANGED <<rule_k, rule_result, outside_rules, re_cache>>

\* Lines 125-126: line = line.lower() under ignore_case.
CaseRule ==
    /\ rule_pc = "case"
    /\ IF ignore_options.ignore_case
       THEN /\ rule_line' = Lower(rule_line)
            /\ rule_log' = Append(rule_log, LogEntry("case", rule_line, "transformed"))
       ELSE UNCHANGED <<rule_line, rule_log>>
    /\ rule_pc' = "pattern"
    /\ UNCHANGED <<rule_k, rule_result, outside_rules, re_cache>>

\* PatternStep matching the line as it was extracted.
PatternStep_RawLine ==
    /\ rule_pc = "pattern"
    /\ IF ignore_options.ignore_pattern # <<>>
       THEN LET p == PatternRule(lines_a[rule_k], ignore_options)
            IN  /\ rule_log' = Append(rule_log,
                       LogEntry("pattern", lines_a[rule_k],
                                IF p.exc # "none" THEN "raised"
                                ELSE IF p.drop THEN "dropped" ELSE "kept"))
                /\ rule_pc' = IF p.exc # "none" THEN "raised"
                              ELSE IF p.drop THEN "loop" ELSE "header_footer"
       ELSE /\ rule_pc' = "header_footer"
            /\ UNCHANGED rule_log
    /\ UNCHANGED <<rule_k, rule_line, rule_result, outside_rules>>
    /\ re_cache' = re_cache \cup UserPatternCompiled(lines_a[rule_k], ignore_options)

\* Lines 128-137: under ignore_pattern the line that matches is dropped
\* (continue); an exception that is not caught leaves the function.
PatternStep ==
    /\ rule_pc = "pattern"
    /\ IF ignore_options.ignore_pattern # <<>>
       THEN LET p == PatternRule(rule_line, ignore_options)
            IN  /\ rule_log' = Append(rule_log,
                       LogEntry("pattern", rule_line,
                                IF p.exc # "none" THEN "raised"
                                ELSE IF p.drop THEN "dropped" ELSE "kept"))
                /\ rule_pc' = IF p.exc # "none" THEN "raised"
                              ELSE IF p.drop THEN "loop" ELSE "header_footer"
       ELSE /\ rule_pc' = "header_footer"
            /\ UNCHANGED rule_log
    /\ UNCHANGED <<rule_k, rule_line, rule_result, outside_rules>>
    /\ re_cache' = re_cache \cup UserPatternCompiled(rule_line, ignore_options)

\* Lines 139-147: under ignore_headers_footers a page-number line is
\* dropped (continue).
HeaderFooterStep ==
    /\ rule_pc = "header_footer"
    /\ IF ignore_options.ignore_headers_footers
       THEN LET drop == HeaderFooterRule(rule_line, ignore_options)
            IN  /\ rule_log' = Append(rule_log,
                       LogEntry("header_footer", rule_line,
                                IF drop THEN "dropped" ELSE "kept"))
                /\ rule_pc' = IF drop THEN "loop" ELSE "append"
       ELSE /\ rule_pc' = "append"
            /\ UNCHANGED rule_log
    /\ UNCHANGED <<rule_k, rule_line, rule_result, outside_rules>>
    /\ re_cache' = re_cache \cup FurniturePatternsCompiled(rule_line, ignore_options)

\* Line 149: result.append(line)
AppendLine ==
    /\ rule_pc = "append"
    /\ rule_result' = Append(rule_result, rule_line)
    /\ rule_pc' = "loop"
    /\ UNCHANGED <<rule_k, rule_line, rule_log, outside_rules, re_cache>>

\* Line 150: return result
ReturnResult ==
    /\ rule_pc = "loop"
    /\ rule_k = Len(lines_a)
    /\ rule_pc' = "returned"
    /\ UNCHANGED <<rule_k, rule_line, rule_result, rule_log, outside_rules, re_cache>>

NextRules ==
    \/ NextLine
    \/ WhitespaceRule
    \/ CaseRule
    \/ PatternStep
    \/ HeaderFooterStep
    \/ AppendLine
    \/ ReturnResult


(***************************************************************************)
(* generate_llm_report (llm.py:541-570) and the provider call it ends in.  *)
(***************************************************************************)
\* A request for an LLM report with the statistics of an unchanged pair.
InitLLM ==
    /\ InitRequest
    /\ RulesIdle
    /\ PeerIdle
    /\ meta_a = SampleMetaA
    /\ meta_b = SampleMetaB
    /\ lines_a = <<>>
    /\ lines_b = <<>>
    /\ ignore_options = NoIgnore
    /\ llm_pc = "start"
    /\ llm_request \in
           [provider : ProviderSamples, endpoint : EndpointSamples,
            unified_diff : {DiffText(n) : n \in DiffLenSamples},
            stats : {NoStats}, name_a : {NameA}, name_b : {NameB}]
    /\ user_prompt = <<>>
    /\ resolved = NotResolved
    /\ requests = <<>>
    /\ response = 0
    /\ llm_exc = "none"

\* llm.py:561-569: the provider looked up, the user prompt built and cut.
BuildPrompt ==
    /\ llm_pc = "start"
    /\ IF llm_request.provider \notin Providers
       THEN /\ llm_pc' = "raised"
            /\ llm_exc' = "Unknown LLM provider"
            /\ UNCHANGED user_prompt
       ELSE /\ llm_pc' = "prompted"
            /\ user_prompt' = TruncatePrompt(llm_request.unified_diff, llm_request.stats,
                                             llm_request.name_a, llm_request.name_b)
            /\ UNCHANGED llm_exc
    /\ UNCHANGED <<llm_request, resolved, requests, response, outside_llm>>

\* The provider call up to _validate_endpoint: the URL taken of the config
\* and validated; getaddrinfo is called when the URL passed the checks
\* ahead of it.
ValidateEndpoint ==
    /\ llm_pc = "prompted"
    /\ LET url == EndpointUrl(llm_request.provider, llm_request.endpoint)
           allow_local == llm_request.provider \in LocalProviders
       IN  IF ValidateSyntax(url) # "none"
           THEN /\ llm_pc' = "raised"
                /\ llm_exc' = ValidateSyntax(url)
                /\ UNCHANGED resolved
           ELSE \E infos \in Resolutions(url.hostname) :
                   /\ resolved' = infos
                   /\ llm_exc' = _validate_endpoint(url, allow_local, infos)
                   /\ llm_pc' = IF _validate_endpoint(url, allow_local, infos) = "none"
                                THEN "validated" ELSE "raised"
    /\ UNCHANGED <<llm_request, user_prompt, requests, response, outside_llm>>

\* _safe_llm_request: the request goes to the validated URL with the user
\* prompt in its body, and the server answers or does not.
SendRequest ==
    /\ llm_pc = "validated"
    /\ requests' = Append(requests,
                          [url |-> EndpointUrl(llm_request.provider, llm_request.endpoint),
                           user |-> user_prompt])
    /\ \E status \in StatusSamples : response' = status
    /\ llm_pc' = "responded"
    /\ UNCHANGED <<llm_request, user_prompt, resolved, llm_exc, outside_llm>>

\* _NoRedirectHandler, HTTPErrorProcessor and _safe_llm_request on the
\* response, then _extract_response on a body that holds the text or not.
HandleResponse ==
    /\ llm_pc = "responded"
    /\ IF response = URLError
       THEN llm_pc' = "raised" /\ llm_exc' = "LLM request failed"
       ELSE IF 300 <= response /\ response < 400
       THEN llm_pc' = "raised" /\ llm_exc' = "LLM request failed with HTTP"
       ELSE IF ~(200 <= response /\ response < 300)
       THEN llm_pc' = "raised" /\ llm_exc' = "LLM request failed with HTTP"
       ELSE \E well_formed \in BOOLEAN :
               IF well_formed
               THEN llm_pc' = "returned" /\ UNCHANGED llm_exc
               ELSE llm_pc' = "raised" /\ llm_exc' = "Unexpected LLM response format"
    /\ UNCHANGED <<llm_request, user_prompt, resolved, requests, response, outside_llm>>

NextLLM ==
    \/ BuildPrompt
    \/ ValidateEndpoint
    \/ SendRequest
    \/ HandleResponse


(***************************************************************************)
(* A second request of compare() in another thread of the process.  Its    *)
(* arguments and locals are the fields of peer; the cache of re is the     *)
(* one state that its stages and those of the first request both write.    *)
(***************************************************************************)
\* The locals of compare() on entry.
PeerRequest(la, lb, options, ma, mb) ==
    [pc |-> "start", lines_a |-> la, lines_b |-> lb, ignore_options |-> options,
     filtered_a |-> <<>>, filtered_b |-> <<>>, exc |-> "none",
     diff_blocks |-> <<>>, stats |-> NoStats, unified |-> <<>>, report |-> <<>>,
     meta_a |-> ma, meta_b |-> mb, metadata_diff |-> <<>>]

ConcurrentPool == {LineSpacedUpper, LineAB, LinePageNo}

\* Ignore options of the concurrent requests: none, the two transforms,
\* the furniture rule with a literal pattern, and a pattern that raises.
ConcurrentOptions ==
    {NoIgnore,
     [NoIgnore EXCEPT !.ignore_whitespace = TRUE, !.ignore_case = TRUE],
     [NoIgnore EXCEPT !.ignore_headers_footers = TRUE, !.ignore_pattern = PatLiteral],
     [NoIgnore EXCEPT !.ignore_pattern = PatHugeRepeat]}

\* Two requests entered, each with its own documents, options and metadata.
InitConcurrent ==
    /\ InitRequest
    /\ RulesIdle
    /\ LLMIdle
    /\ meta_a = SampleMetaA
    /\ meta_b = SampleMetaB
    /\ lines_a \in SeqsUpTo(ConcurrentPool, MaxConcurrentLines)
    /\ lines_b = <<MarkerPage12, LineAB>>
    /\ ignore_options \in ConcurrentOptions
    /\ peer \in {PeerRequest(la, <<MarkerPage2, LinePageNo, LineAB>>, options,
                               SampleMetaB, SampleMetaA) :
                       la \in SeqsUpTo(ConcurrentPool, MaxConcurrentLines),
                       options \in ConcurrentOptions}

\* PeerApplyIgnoreRules reading the options of the first request.
PeerApplyIgnoreRules_SharedOptions ==
    /\ peer.pc = "start"
    /\ \E ra \in {apply_ignore_rules(peer.lines_a, ignore_options)},
          rb \in {apply_ignore_rules(peer.lines_b, ignore_options)},
          ca \in {PatternsCompiled(peer.lines_a, ignore_options)},
          cb \in {PatternsCompiled(peer.lines_b, ignore_options)} :
           IF ra.exc # "none"
           THEN /\ peer' = [peer EXCEPT !.pc = "failed", !.exc = ra.exc]
                /\ re_cache' = re_cache \cup ca
           ELSE IF rb.exc # "none"
           THEN /\ peer' = [peer EXCEPT !.pc = "failed", !.exc = rb.exc,
                                        !.filtered_a = ra.result]
                /\ re_cache' = re_cache \cup ca \cup cb
           ELSE /\ peer' = [peer EXCEPT !.pc = "filtered", !.filtered_a = ra.result,
                                        !.filtered_b = rb.result]
                /\ re_cache' = re_cache \cup ca \cup cb
    /\ UNCHANGED outside_peer

\* Lines 557-558 in the second request.
PeerApplyIgnoreRules ==
    /\ peer.pc = "start"
    /\ \E ra \in {apply_ignore_rules(peer.lines_a, peer.ignore_options)},
          rb \in {apply_ignore_rules(peer.lines_b, peer.ignore_options)},
          ca \in {PatternsCompiled(peer.lines_a, peer.ignore_options)},
          cb \in {PatternsCompiled(peer.lines_b, peer.ignore_options)} :
           IF ra.exc # "none"
           THEN /\ peer' = [peer EXCEPT !.pc = "failed", !.exc = ra.exc]
                /\ re_cache' = re_cache \cup ca
           ELSE IF rb.exc # "none"
           THEN /\ peer' = [peer EXCEPT !.pc = "failed", !.exc = rb.exc,
                                        !.filtered_a = ra.result]
                /\ re_cache' = re_cache \cup ca \cup cb
           ELSE /\ peer' = [peer EXCEPT !.pc = "filtered", !.filtered_a = ra.result,
                                        !.filtered_b = rb.result]
                /\ re_cache' = re_cache \cup ca \cup cb
    /\ UNCHANGED outside_peer

\* Line 560 in the second request.
PeerComputeDiff ==
    /\ peer.pc = "filtered"
    /\ \E r \in {compute_diff(peer.filtered_a, peer.filtered_b)} :
           peer' = [peer EXCEPT !.pc = "diffed", !.diff_blocks = r.diff_blocks,
                                !.stats = r.stats]
    /\ UNCHANGED <<outside_peer, re_cache>>

\* Line 561 in the second request.
PeerGenerateUnifiedDiff ==
    /\ peer.pc = "diffed"
    /\ peer' = [peer EXCEPT !.pc = "unified",
                            !.unified = generate_unified_diff(peer.filtered_a, peer.filtered_b,
                                                              NameA, NameB)]
    /\ UNCHANGED <<outside_peer, re_cache>>

\* Line 562 in the second request.
PeerGenerateReport ==
    /\ peer.pc = "unified"
    /\ peer' = [peer EXCEPT !.pc = "reported",
                            !.report = generate_report(peer.diff_blocks, peer.stats,
                                                       NameA, NameB)]
    /\ UNCHANGED <<outside_peer, re_cache>>

\* Line 563 in the second request.
PeerCompareMetadata ==
    /\ peer.pc = "reported"
    /\ peer' = [peer EXCEPT !.pc = "done",
                            !.metadata_diff = compare_metadata(peer.meta_a, peer.meta_b)]
    /\ UNCHANGED <<outside_peer, re_cache>>

\* The stages of the two requests, interleaved in any order.
NextConcurrent ==
    \/ ApplyIgnoreRules
    \/ ComputeDiff
    \/ GenerateUnifiedDiff
    \/ GenerateReport
    \/ CompareMetadata
    \/ PeerApplyIgnoreRules
    \/ PeerComputeDiff
    \/ PeerGenerateUnifiedDiff
    \/ PeerGenerateReport
    \/ PeerCompareMetadata

Spec == Init /\ [][Next]_vars

SpecRules == InitRules /\ [][NextRules]_vars

SpecIgnore == InitIgnore /\ [][Next]_vars

SpecRegex == InitRegex /\ [][Next]_vars

SpecMetadata == InitMetadata /\ [][Next]_vars

\* generate_report on its own, applied to the outcome of compute_diff.
NextReport == GenerateReport

SpecReport == InitReport /\ [][NextReport]_vars

SpecWords == InitWords /\ [][Next]_vars

SpecChange == InitChange /\ [][Next]_vars

SpecLLM == InitLLM /\ [][NextLLM]_vars

SpecConcurrent == InitConcurrent /\ [][NextConcurrent]_vars

SpecHeaderFooter == InitHeaderFooter /\ [][Next]_vars

(***************************************************************************)
(* Vocabulary of the properties, stated without the algorithms above.      *)
(***************************************************************************)
Diffed == pc = "diffed"

Filtered == pc \in {"filtered", "diffed"}

\* A line sequence with its page markers removed.
StripMarkers(lines) == SelectSeq(lines, LAMBDA l : ~_is_page_marker(l))

\* The page markers of a line sequence, in order.
MarkersOf(lines) == SelectSeq(lines, _is_page_marker)

SetMax(S) == CHOOSE x \in S : \A y \in S : y <= x

SetMin(S) == CHOOSE x \in S : \A y \in S : x <= y

RECURSIVE Ascending(_)
\* The elements of a finite set of integers in ascending order.
Ascending(S) ==
    IF S = {} THEN <<>> ELSE <<SetMin(S)>> \o Ascending(S \ {SetMin(S)})

RECURSIVE SumSeq(_)
SumSeq(ns) == IF ns = <<>> THEN 0 ELSE Head(ns) + SumSeq(Tail(ns))

\* The page in effect at 1-based position pos: the number of the last marker
\* at or before pos, or 1 when there is none.
PageInEffect(lines, pos) ==
    LET ms == {m \in 1..pos : _is_page_marker(lines[m])}
    IN  IF ms = {} THEN 1 ELSE _page_number_from_marker(lines[SetMax(ms)])

\* The 1-based position in lines of content line n (0-based, markers skipped).
OriginalPosition(lines, n) ==
    CHOOSE q \in 1..Len(lines) :
        /\ ~_is_page_marker(lines[q])
        /\ Cardinality({r \in 1..(q - 1) : ~_is_page_marker(lines[r])}) = n

LeftLen(b) == b.left_end - b.left_start

RightLen(b) == b.right_end - b.right_start

BlocksWithTag(tag) == SelectSeq(diff_blocks, LAMBDA b : b.tag = tag)

(***************************************************************************)
(* C1 - Coverage.  The left ranges of the blocks of compute_diff, in       *)
(* output order, start at 0, each begins where the previous one ended, and *)
(* the last ends at the number of non-marker lines of the left input; the  *)
(* same holds for the right ranges and the right input.                    *)
(***************************************************************************)
C1_Coverage ==
    Diffed =>
        LET n  == Len(diff_blocks)
            la == Len(StripMarkers(filtered_a))
            lb == Len(StripMarkers(filtered_b))
        IN  /\ n = 0 => la = 0 /\ lb = 0
            /\ n > 0 => /\ diff_blocks[1].left_start = 0
                        /\ diff_blocks[1].right_start = 0
                        /\ diff_blocks[n].left_end = la
                        /\ diff_blocks[n].right_end = lb
            /\ \A k \in 1..n : /\ diff_blocks[k].left_start <= diff_blocks[k].left_end
                               /\ diff_blocks[k].right_start <= diff_blocks[k].right_end
            /\ \A k \in 1..(n - 1) :
                  /\ diff_blocks[k + 1].left_start = diff_blocks[k].left_end
                  /\ diff_blocks[k + 1].right_start = diff_blocks[k].right_end

\* Three or more blocks over inputs that carry page markers on both sides.
C1_Witness ==
    /\ Diffed
    /\ Len(diff_blocks) >= 3
    /\ MarkersOf(filtered_a) # <<>>
    /\ MarkersOf(filtered_b) # <<>>
    /\ \E k \in 1..Len(diff_blocks) : diff_blocks[k].tag # "equal"

(***************************************************************************)
(* C2 - Round trip.  The left_lines of all blocks, concatenated in output  *)
(* order, are the marker-stripped left input, and the right_lines are the  *)
(* marker-stripped right input.                                            *)
(***************************************************************************)
C2_RoundTrip ==
    Diffed =>
        /\ Concat([k \in 1..Len(diff_blocks) |-> diff_blocks[k].left_lines])
              = StripMarkers(filtered_a)
        /\ Concat([k \in 1..Len(diff_blocks) |-> diff_blocks[k].right_lines])
              = StripMarkers(filtered_b)

\* Several blocks, different content on the two sides, markers in the input.
C2_Witness ==
    /\ Diffed
    /\ Len(diff_blocks) >= 2
    /\ StripMarkers(filtered_a) # StripMarkers(filtered_b)
    /\ Len(StripMarkers(filtered_a)) >= 2
    /\ MarkersOf(filtered_a) # <<>>

(***************************************************************************)
(* C3 - Left stats identity.  As stated: stats.equal + stats.delete +      *)
(* stats.replace is the number of non-marker lines of the left input.      *)
(***************************************************************************)
C3_Original ==
    Diffed =>
        stats.equal + stats.delete + stats.replace = Len(StripMarkers(filtered_a))

\* The amount by which replace blocks overcount the left side: for each
\* replace block, its right length minus its left length when positive.
ReplaceExcess ==
    LET rs == BlocksWithTag("replace")
    IN  SumSeq([k \in 1..Len(rs) |-> Max2(RightLen(rs[k]) - LeftLen(rs[k]), 0)])

(***************************************************************************)
(* C3 (amended).  stats.equal + stats.delete + stats.replace is the number *)
(* of non-marker lines of the left input plus, for every replace block     *)
(* whose right range is longer than its left range, the difference of the  *)
(* two lengths; it equals the left line count exactly when no replace      *)
(* block is longer on the right.                                           *)
(***************************************************************************)
C3_LeftStats ==
    Diffed =>
        stats.equal + stats.delete + stats.replace
            = Len(StripMarkers(filtered_a)) + ReplaceExcess

\* A replace block that is longer on the right, next to an equal block.
C3_Witness ==
    /\ Diffed
    /\ stats.equal > 0
    /\ \E k \in 1..Len(diff_blocks) :
          /\ diff_blocks[k].tag = "replace"
          /\ RightLen(diff_blocks[k]) > LeftLen(diff_blocks[k])

(***************************************************************************)
(* C4 - Right stats identity.  stats.equal + stats.insert plus the sum of  *)
(* the right-range lengths of all replace blocks is the number of          *)
(* non-marker lines of the right input.                                    *)
(***************************************************************************)
C4_RightStats ==
    Diffed =>
        LET rs == BlocksWithTag("replace")
        IN  stats.equal + stats.insert + SumSeq([k \in 1..Len(rs) |-> RightLen(rs[k])])
                = Len(StripMarkers(filtered_b))

\* Equal, inserted and replaced lines together, the replace block uneven.
C4_Witness ==
    /\ Diffed
    /\ stats.equal > 0
    /\ stats.insert > 0
    /\ \E k \in 1..Len(diff_blocks) :
          /\ diff_blocks[k].tag = "replace"
          /\ RightLen(diff_blocks[k]) # LeftLen(diff_blocks[k])

\* The page of content line n (0-based) of a line sequence with markers.
PageOfContentLine(lines, n) == PageInEffect(lines, OriginalPosition(lines, n))

C6_PageIndex ==
    Diffed =>
        \A lines \in {filtered_a, filtered_b} :
            LET page_index == _build_page_index(lines)
            IN  /\ Len(page_index) = Len(lines)
                /\ \A i \in 1..Len(lines) : page_index[i] = PageInEffect(lines, i)

\* Content before the first marker, then a marker, then content again; the
\* blocks carry both the default page and the marker's page.
C6_Witness ==
    /\ Diffed
    /\ Len(filtered_a) >= 3
    /\ ~_is_page_marker(filtered_a[1])
    /\ _is_page_marker(filtered_a[2])
    /\ ~_is_page_marker(filtered_a[3])
    /\ _build_page_index(filtered_a)[1] = 1
    /\ _build_page_index(filtered_a)[2] = 12
    /\ \E k \in 1..Len(diff_blocks) : diff_blocks[k].left_page = 12
    /\ \E k \in 1..Len(diff_blocks) : diff_blocks[k].left_page = 1

(***************************************************************************)
(* Vocabulary of the ignore-rule properties.                               *)
(***************************************************************************)
\* The two calls of apply_ignore_rules of a request: <<input, output>>.
FilterCalls == {<<lines_a, filtered_a>>, <<lines_b, filtered_b>>}

MarkerPositions(lines) == {i \in 1..Len(lines) : _is_page_marker(lines[i])}

\* The forms in which a kept line may be emitted: as it is, with whitespace
\* runs collapsed, case-folded, or both.
Collapsed(line) == Join(<<" ">>, Split(line))

Images(line) == {line, Collapsed(line), Lower(line), Lower(Collapsed(line))}

WhitespaceOnly == [NoIgnore EXCEPT !.ignore_whitespace = TRUE]

CaseOnly == [NoIgnore EXCEPT !.ignore_case = TRUE]

(***************************************************************************)
(* C7 - Marker invariance.  Whatever the ignore options (an invalid or     *)
(* over-long pattern, a pattern that matches a marker), the page markers   *)
(* of the output of apply_ignore_rules are the markers of the input,       *)
(* unmodified and in order, and each marker stands between the same        *)
(* surviving content lines as in the input.                                *)
(***************************************************************************)
C7_MarkersKept ==
    Filtered =>
        \A call \in FilterCalls :
            LET in  == call[1]
                out == call[2]
            IN  /\ MarkersOf(out) = MarkersOf(in)
                /\ \E S \in SUBSET (1..Len(in)) :
                      LET idx == Ascending(S)
                      IN  /\ MarkerPositions(in) \subseteq S
                          /\ Len(out) = Len(idx)
                          /\ \A k \in 1..Len(out) :
                                IF _is_page_marker(in[idx[k]])
                                THEN out[k] = in[idx[k]]
                                ELSE ~_is_page_marker(out[k])

\* A pattern that matches markers too, with case folding: content before the
\* marker is dropped, the marker survives unmodified.
C7_Witness ==
    /\ Filtered
    /\ ignore_options.ignore_pattern = PatDotStar
    /\ ignore_options.ignore_case
    /\ Len(lines_a) = 3
    /\ ~_is_page_marker(lines_a[1])
    /\ _is_page_marker(lines_a[2])
    /\ ~_is_page_marker(lines_a[3])
    /\ filtered_a = <<lines_a[2]>>

(***************************************************************************)
(* C8 - Whole-line filtering.  The output of apply_ignore_rules is no      *)
(* longer than the input; its lines are images (as is, collapsed,          *)
(* case-folded) of a subsequence of the input lines, in input order; with  *)
(* no option active the output is the input.                               *)
(***************************************************************************)
C8_Subsequence ==
    Filtered =>
        \A call \in FilterCalls :
            LET in  == call[1]
                out == call[2]
            IN  /\ Len(out) <= Len(in)
                /\ \E S \in SUBSET (1..Len(in)) :
                      LET idx == Ascending(S)
                      IN  /\ Len(out) = Len(idx)
                          /\ \A k \in 1..Len(out) : out[k] \in Images(in[idx[k]])
                /\ ignore_options = NoIgnore => out = in

\* A line dropped, two different lines kept in order, one of them transformed.
C8_Witness ==
    /\ Filtered
    /\ Len(lines_a) = 3
    /\ Len(filtered_a) = 2
    /\ filtered_a[1] # filtered_a[2]
    /\ \E k \in 1..2 : \A i \in 1..3 : filtered_a[k] # lines_a[i]

(***************************************************************************)
(* C9 - Idempotence.  With ignore_whitespace as the only active rule, and  *)
(* with ignore_case as the only active rule, applying apply_ignore_rules   *)
(* to its own output returns that output.                                  *)
(***************************************************************************)
C9_Idempotent ==
    (Filtered /\ ignore_options \in {WhitespaceOnly, CaseOnly}) =>
        \A call \in FilterCalls :
            apply_ignore_rules(call[2], ignore_options)
                = [exc |-> "none", result |-> call[2]]

\* The whitespace rule changed a line of document A on the first application.
C9_Witness ==
    /\ Filtered
    /\ ignore_options = WhitespaceOnly
    /\ Len(filtered_a) = Len(lines_a)
    /\ \E k \in 1..Len(lines_a) :
          /\ lines_a[k] = LineSpacedUpper
          /\ filtered_a[k] = <<"A", " ", "b">>

\* The pattern is over the length cap, or re.fullmatch refuses it.
PatternRejected(pattern) ==
    \/ Len(pattern) > PatternLengthCap
    \/ re_fullmatch(pattern, <<>>).exc # "none"

(***************************************************************************)
(* C10 - Rejected patterns.  When ignore_pattern is longer than 500        *)
(* characters or is not a valid regular expression, apply_ignore_rules     *)
(* raises nothing and returns what it returns without the pattern rule:    *)
(* the other active rules still apply to every line.                       *)
(***************************************************************************)
C10_RejectedPatternContained ==
    PatternRejected(ignore_options.ignore_pattern) =>
        /\ pc # "failed"
        /\ exc = "none"
        /\ Filtered =>
              \A call \in FilterCalls :
                  call[2] = apply_ignore_rules(call[1],
                                [ignore_options EXCEPT !.ignore_pattern = PatNone]).result

(***************************************************************************)
(* The per-line evaluation bound of the ignore pattern.                    *)
(***************************************************************************)
\* The bound on the evaluation of the pattern against one line, in seconds.
EvaluationBoundSeconds == 2

\* Steps per second of the matcher on the nested pattern (measured: between
\* seven and twelve million group attempts per second).
MatcherStepsPerSecond == 10000000

\* C11: the evaluation of ignore_pattern against a single line stays within
\* the bound of about two seconds: no line of a request costs the matcher
\* more steps than fit in the bound, the pattern "(a+)+$" on thirty "a"
\* followed by "b" included.
C11_BoundedEvaluation ==
    match_steps <= EvaluationBoundSeconds * MatcherStepsPerSecond

(***************************************************************************)
(* Page furniture, stated on the words of the line.                        *)
(***************************************************************************)
AllDigits(w) == w # <<>> /\ \A k \in 1..Len(w) : IsDigit(w[k])

\* The whole of s is a run of digits with dashes and whitespace around it.
IsPaddedNumber(s) ==
    \E i \in 1..Len(s) : \E j \in i..Len(s) :
        /\ \A k \in 1..(i - 1) : s[k] \in DashOrSpace
        /\ \A k \in i..j : IsDigit(s[k])
        /\ \A k \in (j + 1)..Len(s) : s[k] \in DashOrSpace

\* The whole of s is "page <int>" or "page <int> of <int>", in any case.
IsPageOfForm(s) ==
    LET w == Split(Lower(s)) IN
    /\ s = Strip(s)
    /\ Len(w) \in {2, 4}
    /\ w[1] = <<"p", "a", "g", "e">>
    /\ AllDigits(w[2])
    /\ Len(w) = 4 => (w[3] = <<"o", "f">> /\ AllDigits(w[4]))

IsPageFurniture(line) ==
    IsPaddedNumber(Strip(line)) \/ IsPageOfForm(Strip(line))

\* The content lines of a document that are not page furniture, and its markers.
WithoutFurniture(lines) ==
    SelectSeq(lines, LAMBDA l : _is_page_marker(l) \/ ~IsPageFurniture(l))

\* The line as the whitespace and case rules leave it.
Normalised(line, options) ==
    IF _is_page_marker(line) THEN line
    ELSE LET l1 == IF options.ignore_whitespace THEN Collapsed(line) ELSE line
         IN  IF options.ignore_case THEN Lower(l1) ELSE l1

(***************************************************************************)
(* C12 - Header/footer rule.  With ignore_headers_footers active (and no   *)
(* ignore_pattern), a content line is dropped if and only if, after        *)
(* stripping surrounding whitespace, the whole line is a run of digits     *)
(* with optional dash/space padding or the whole line is "page <int>"      *)
(* optionally followed by "of <int>", case-insensitively; every other      *)
(* line is kept, a line with trailing text after the page number included. *)
(***************************************************************************)
C12_HeaderFooter ==
    (Filtered /\ ignore_options.ignore_headers_footers
              /\ ignore_options.ignore_pattern = PatNone) =>
        \A call \in FilterCalls :
            LET kept == WithoutFurniture(call[1])
            IN  call[2] = [k \in 1..Len(kept) |-> Normalised(kept[k], ignore_options)]

\* "Page 3 of 10" was dropped and "Page 3 Summary" was kept.
C12_Witness ==
    /\ Filtered
    /\ ignore_options.ignore_headers_footers
    /\ ~ignore_options.ignore_case
    /\ lines_a = <<LinePage3Of10, LinePage3Summary>>
    /\ filtered_a = <<LinePage3Summary>>

(***************************************************************************)
(* Word-level spans of the replace blocks.                                 *)
(***************************************************************************)
ReplaceBlocks == {diff_blocks[n] : n \in {m \in 1..Len(diff_blocks) : diff_blocks[m].tag = "replace"}}

\* Line i (1-based) of a line list, the empty line when the list is shorter.
LineOrEmpty(lines, i) == IF i <= Len(lines) THEN lines[i] ELSE <<>>

\* The texts of a span list, in order.
SpanTexts(spans) == [k \in 1..Len(spans) |-> spans[k][1]]

(***************************************************************************)
(* C13 - Positional pairing.  The word_diffs list of a replace block has   *)
(* exactly max(number of left lines, number of right lines) entries; entry *)
(* i is the word alignment of left line i with right line i, a missing     *)
(* line counting as the empty line, whose span list is empty; a block has  *)
(* a word_diffs list if and only if its tag is replace.                    *)
(***************************************************************************)
C13_PositionalPairing ==
    Diffed =>
        \A n \in 1..Len(diff_blocks) :
            LET b == diff_blocks[n] IN
            /\ ("word_diffs" \in DOMAIN b) <=> (b.tag = "replace")
            /\ b.tag = "replace" =>
                  /\ Len(b.word_diffs) = Max2(Len(b.left_lines), Len(b.right_lines))
                  /\ \A i \in 1..Len(b.word_diffs) :
                        /\ b.word_diffs[i] = WordDiffEntry(LineOrEmpty(b.left_lines, i),
                                                           LineOrEmpty(b.right_lines, i))
                        /\ i > Len(b.left_lines) => b.word_diffs[i].left_spans = <<>>
                        /\ i > Len(b.right_lines) => b.word_diffs[i].right_spans = <<>>

\* A replace block of two left lines and one right line: the second entry
\* has left spans and no right span.
C13_Witness ==
    /\ Diffed
    /\ \E b \in ReplaceBlocks :
          /\ Len(b.left_lines) = 2
          /\ Len(b.right_lines) = 1
          /\ Len(b.word_diffs) = 2
          /\ b.word_diffs[2].left_spans # <<>>
          /\ b.word_diffs[2].right_spans = <<>>

(***************************************************************************)
(* C14 - Span texts.  For every entry of a word_diffs list, the texts of   *)
(* left_spans joined in order with single spaces give the left line split  *)
(* on whitespace and rejoined with single spaces, likewise right_spans and *)
(* the right line; no span has an empty text.                              *)
(***************************************************************************)
C14_SpaceJoin ==
    Diffed =>
        \A b \in ReplaceBlocks : \A i \in 1..Len(b.word_diffs) :
            LET e == b.word_diffs[i] IN
            /\ Join(<<" ">>, SpanTexts(e.left_spans))
                  = Collapsed(LineOrEmpty(b.left_lines, i))
            /\ Join(<<" ">>, SpanTexts(e.right_spans))
                  = Collapsed(LineOrEmpty(b.right_lines, i))
            /\ \A k \in 1..Len(e.left_spans) : e.left_spans[k][1] # <<>>
            /\ \A k \in 1..Len(e.right_spans) : e.right_spans[k][1] # <<>>

\* A line with irregular whitespace against a line of three words that
\* shares a word with it: several spans on both sides.
C14_Witness ==
    /\ Diffed
    /\ \E b \in ReplaceBlocks : \E i \in 1..Len(b.word_diffs) :
          /\ LineOrEmpty(b.left_lines, i) = LineSpacedUpper
          /\ LineOrEmpty(b.right_lines, i) = LineABC
          /\ Len(b.word_diffs[i].left_spans) = 2
          /\ Len(b.word_diffs[i].right_spans) = 3

(***************************************************************************)
(* C15 - Reconstruction.  As stated: for every word-diff entry of every    *)
(* replace block, the texts of left_spans concatenated in order are the    *)
(* original left line, and the texts of right_spans concatenated in order  *)
(* are the original right line.                                            *)
(***************************************************************************)
C15_Original ==
    Diffed =>
        \A b \in ReplaceBlocks : \A i \in 1..Len(b.word_diffs) :
            /\ Concat(SpanTexts(b.word_diffs[i].left_spans))
                  = LineOrEmpty(b.left_lines, i)
            /\ Concat(SpanTexts(b.word_diffs[i].right_spans))
                  = LineOrEmpty(b.right_lines, i)

\* The line is reconstructed exactly by its span texts put together with sep.
Reconstructs(spans, sep, line) == Join(sep, SpanTexts(spans)) = line

\* C15, amended: the texts of the spans of a side, joined with single
\* spaces, are the original line exactly when the line has no surrounding
\* whitespace and single spaces between its words; concatenated without a
\* separator they are the original line exactly when, in addition, the side
\* has at most one span.
C15_Reconstruction ==
    Diffed =>
        \A b \in ReplaceBlocks : \A i \in 1..Len(b.word_diffs) :
            LET e     == b.word_diffs[i]
                left  == LineOrEmpty(b.left_lines, i)
                right == LineOrEmpty(b.right_lines, i)
            IN  /\ Reconstructs(e.left_spans, <<" ">>, left) <=> left = Collapsed(left)
                /\ Reconstructs(e.right_spans, <<" ">>, right) <=> right = Collapsed(right)
                /\ Reconstructs(e.left_spans, <<>>, left)
                      <=> (left = Collapsed(left) /\ Len(e.left_spans) <= 1)
                /\ Reconstructs(e.right_spans, <<>>, right)
                      <=> (right = Collapsed(right) /\ Len(e.right_spans) <= 1)

\* "a b c" against "a  x c": the left line comes back from its three spans
\* joined with spaces but not concatenated, the right line from neither.
C15_Witness ==
    /\ Diffed
    /\ \E b \in ReplaceBlocks : \E i \in 1..Len(b.word_diffs) :
          LET e == b.word_diffs[i] IN
          /\ LineOrEmpty(b.left_lines, i) = LineABC
          /\ LineOrEmpty(b.right_lines, i) = LineAXC
          /\ Len(e.left_spans) = 3
          /\ Reconstructs(e.left_spans, <<" ">>, LineABC)
          /\ ~Reconstructs(e.left_spans, <<>>, LineABC)
          /\ ~Reconstructs(e.right_spans, <<" ">>, LineAXC)

(***************************************************************************)
(* Metadata.                                                               *)
(***************************************************************************)
Done == pc = "done"

\* The value of key in a metadata map as text, the empty text for no value.
Stringified(meta, key) == IF key \in DOMAIN meta THEN Str(meta[key]) ELSE <<>>

\* The keys of either map whose values differ as text.
DifferingKeys ==
    {key \in DOMAIN meta_a \cup DOMAIN meta_b :
        Stringified(meta_a, key) # Stringified(meta_b, key)}

(***************************************************************************)
(* C16 - Metadata diff.  compare_metadata returns exactly one entry for    *)
(* each key of either map whose stringified values differ, a key missing   *)
(* from a map counting as the empty string, and no entry for another key;  *)
(* the entries are in ascending key order and carry both stringified       *)
(* values.                                                                 *)
(***************************************************************************)
C16_MetadataDiff ==
    Done =>
        /\ Len(metadata_diff) = Cardinality(DifferingKeys)
        /\ {metadata_diff[n].field : n \in 1..Len(metadata_diff)} = DifferingKeys
        /\ \A n \in 1..Len(metadata_diff) :
              /\ metadata_diff[n].value_a = Stringified(meta_a, metadata_diff[n].field)
              /\ metadata_diff[n].value_b = Stringified(meta_b, metadata_diff[n].field)
        /\ \A m, n \in 1..Len(metadata_diff) :
              m < n => StrLess(metadata_diff[m].field, metadata_diff[n].field)

\* An int page count of 0 against a missing key and an empty title against
\* "x": two entries, page_count ahead of title.
C16_Witness ==
    /\ Done
    /\ meta_a = (MetaKeySeq[1] :> StrValue(<<>>)) @@ (MetaKeySeq[2] :> IntValue(0))
    /\ meta_b = (MetaKeySeq[1] :> StrValue(<<"x">>))
    /\ metadata_diff =
          << [field |-> MetaKeySeq[2], value_a |-> <<"0">>, value_b |-> <<>>],
             [field |-> MetaKeySeq[1], value_a |-> <<>>, value_b |-> <<"x">>] >>

(***************************************************************************)
(* Reading the report.                                                     *)
(***************************************************************************)
Reported == pc \in {"reported", "done"}

Changed == stats.insert + stats.delete + stats.replace

TotalLines == stats.equal + stats.delete + stats.replace

\* The positions of the report lines of a kind.
LinesOfKind(kind) == {n \in 1..Len(report) : report[n].kind = kind}

SeverityKind == "**Overall severity:**"

IdenticalKind == "The two documents are **identical**"

HeadingKinds ==
    [insert  |-> "### New Content (N section(s) added)",
     delete  |-> "### Removed Content (N section(s) deleted)",
     replace |-> "### Modified Content (N section(s) changed)"]

ItemKinds == [insert |-> "N. Near line", delete |-> "N. Near line", replace |-> "N. Line"]

MoreKind == "   *(and N more...)*"

BulletKinds ==
    [delete  |-> "- **Removed content**",
     insert  |-> "- **Added content**",
     replace |-> "- **Modified sections**",
     volume  |-> "- Given the **high volume of changes**"]

\* The severity that the change percentage calls for: Low up to 10 percent,
\* Medium above 10 and up to 30, High above 30; 0 percent when no line counts.
SeverityOfPercentage ==
    IF TotalLines = 0 \/ Changed * 100 <= 10 * TotalLines THEN "**Low**"
    ELSE IF Changed * 100 <= 30 * TotalLines THEN "**Medium**"
    ELSE "**High**"

\* Exactly one severity sentence, the one the percentage calls for.
OneSeveritySentence ==
    \E n \in 1..Len(report) :
        /\ LinesOfKind(SeverityKind) = {n}
        /\ report[n].severity = SeverityOfPercentage

(***************************************************************************)
(* C17 - Severity.  As stated: for every stats combination the report      *)
(* holds exactly one severity sentence, Low for a change percentage of at  *)
(* most 10, Medium above 10 and up to 30, High above 30, the percentage    *)
(* being (insert+delete+replace) / (equal+delete+replace) x 100, or 0 for  *)
(* a denominator of 0.                                                     *)
(***************************************************************************)
C17_Original == Reported => OneSeveritySentence

\* C17, amended: when insert+delete+replace > 0 the report holds exactly one
\* severity sentence, Low for a change percentage of at most 10, Medium above
\* 10 and up to 30, High above 30 (0 percent for a denominator of 0); when
\* insert+delete+replace = 0 it holds no severity sentence.
C17_Severity ==
    Reported =>
        IF Changed = 0 THEN LinesOfKind(SeverityKind) = {} ELSE OneSeveritySentence

\* Three changed lines of ten: exactly 30 percent, reported as Medium.
C17_Witness ==
    /\ Reported
    /\ stats = [equal |-> 7, insert |-> 0, delete |-> 0, replace |-> 3]
    /\ \E n \in LinesOfKind(SeverityKind) : report[n].severity = "**Medium**"

(***************************************************************************)
(* C18 - Early exit.  When insert+delete+replace = 0 the report is the     *)
(* header and the statistics table followed by the sentence that the       *)
(* documents are identical in textual content, and nothing else: no        *)
(* severity line, no New/Removed/Modified listing and no Consequences      *)
(* section, whatever diff_blocks contains.                                 *)
(***************************************************************************)
C18_EarlyExit ==
    (Reported /\ Changed = 0) =>
        /\ report[1].kind = "# PDF Comparison Report"
        /\ \E n \in 1..Len(report) :
              /\ LinesOfKind("| Unchanged lines |") = {n}
              /\ report[n].count = stats.equal
              /\ report[n + 1] = CountLine("| Inserted lines |", 0)
              /\ report[n + 2] = CountLine("| Deleted lines |", 0)
              /\ report[n + 3] = CountLine("| Modified lines |", 0)
              /\ report[n + 4] = CountLine("| **Total changed** |", 0)
        /\ LinesOfKind(IdenticalKind) = {Len(report)}
        /\ \A n \in 1..Len(report) :
              report[n].kind \notin
                  {SeverityKind, MoreKind, "## Consequences"}
                  \cup {HeadingKinds[t] : t \in DOMAIN HeadingKinds}
                  \cup {ItemKinds[t] : t \in DOMAIN ItemKinds}
                  \cup {BulletKinds[t] : t \in DOMAIN BulletKinds}

\* Stats without a change next to diff_blocks that hold a block of each tag.
C18_Witness ==
    /\ Reported
    /\ Changed = 0
    /\ stats.equal > 0
    /\ \A t \in {"insert", "delete", "replace"} : BlocksWithTag(t) # <<>>

(***************************************************************************)
(* The listing of a category in the report.                                *)
(***************************************************************************)
\* The start line and the preview lines that an item shows for a block.
ItemLine(b, tag) == (IF tag = "insert" THEN b.right_start ELSE b.left_start) + 1

ItemText(b, tag) ==
    LET ls == IF tag = "insert" THEN b.right_lines ELSE b.left_lines
    IN  Join(<<" ">>, SubSeq(ls, 1, Min2(Len(ls), IF tag = "replace" THEN 2 ELSE 3)))

\* Report lines per listed block: one, or three for a modification.
ItemHeight(tag) == IF tag = "replace" THEN 3 ELSE 1

\* The listing of the blocks of a tag starts at heading position h: the
\* heading with the number of blocks, the first min(n, 10) blocks in the
\* order of diff_blocks numbered from 1, and a line "(and n - 10 more)"
\* exactly when n > 10.
ListingAt(h, tag) ==
    LET blocks == BlocksWithTag(tag)
        n      == Len(blocks)
        shown  == Min2(n, 10)
        first  == h + 4
        after  == first + shown * ItemHeight(tag)
    IN  /\ report[h].count = n
        /\ \A i \in 1..shown :
              LET item == report[first + (i - 1) * ItemHeight(tag)] IN
              /\ item.kind = ItemKinds[tag]
              /\ item.number = i
              /\ item.line = ItemLine(blocks[i], tag)
              /\ IF tag = "replace"
                 THEN report[first + (i - 1) * 3 + 1].preview = ItemText(blocks[i], tag)
                 ELSE item.preview = ItemText(blocks[i], tag)
        /\ IF n > 10
           THEN report[after] = CountLine(MoreKind, n - 10) /\ report[after + 1] = BlankLine
           ELSE report[after] = BlankLine

\* The change blocks of diff_blocks, in order.
ChangeBlocks == SelectSeq(diff_blocks, LAMBDA b : b.tag # "equal")

(***************************************************************************)
(* C19 - Listings.  In a report past the early exit, the listing of each   *)
(* category shows the first min(n, 10) blocks of its tag in document order, *)
(* numbered from 1, n being the number of blocks of the tag; exactly one   *)
(* "(and N more)" line with N = n - 10 follows the items if and only if    *)
(* n > 10; a category with n = 0 has no heading and no listing.            *)
(***************************************************************************)
C19_Listings ==
    (Reported /\ (Changed > 0 \/ ChangeBlocks = <<>>)) =>
        /\ \A tag \in {"insert", "delete", "replace"} :
              IF BlocksWithTag(tag) = <<>>
              THEN LinesOfKind(HeadingKinds[tag]) = {}
              ELSE \E h \in 1..Len(report) :
                      /\ LinesOfKind(HeadingKinds[tag]) = {h}
                      /\ ListingAt(h, tag)
        /\ Cardinality(LinesOfKind("N. Near line"))
              = Min2(Len(BlocksWithTag("insert")), 10) + Min2(Len(BlocksWithTag("delete")), 10)
        /\ Cardinality(LinesOfKind("N. Line")) = Min2(Len(BlocksWithTag("replace")), 10)
        /\ Cardinality(LinesOfKind(MoreKind))
              = Cardinality({tag \in {"insert", "delete", "replace"} :
                                Len(BlocksWithTag(tag)) > 10})

\* Eleven insert blocks, ten delete blocks and no replace block: ten items
\* and "(and 1 more)" for the first, ten items and no such line for the
\* second, nothing for the third.
C19_Witness ==
    /\ Reported
    /\ Len(BlocksWithTag("insert")) = 11
    /\ Len(BlocksWithTag("delete")) = 10
    /\ Len(BlocksWithTag("replace")) = 0
    /\ \E n \in 1..Len(report) :
          /\ LinesOfKind(MoreKind) = {n}
          /\ report[n].count = 1
          /\ report[n - 1].kind = "N. Near line"
          /\ report[n - 1].number = 10
          /\ n < CHOOSE h \in LinesOfKind(HeadingKinds["delete"]) : TRUE

(***************************************************************************)
(* C20 - Consequences.  The Consequences section holds one fixed bullet    *)
(* for each category with at least one block, in the order deletions,      *)
(* additions, modifications, followed by the high-volume bullet if and     *)
(* only if the reported severity is High; it holds no other bullet.        *)
(***************************************************************************)
C20_Consequences ==
    (Reported /\ Changed > 0) =>
        \E c \in 1..Len(report) :
            /\ LinesOfKind("## Consequences") = {c}
            /\ LET high   == \E n \in LinesOfKind(SeverityKind) : report[n].severity = "**High**"
                   expect == (IF BlocksWithTag("delete") # <<>> THEN <<BulletKinds.delete>> ELSE <<>>)
                             \o (IF BlocksWithTag("insert") # <<>> THEN <<BulletKinds.insert>> ELSE <<>>)
                             \o (IF BlocksWithTag("replace") # <<>> THEN <<BulletKinds.replace>> ELSE <<>>)
                             \o (IF high THEN <<BulletKinds.volume>> ELSE <<>>)
               IN  /\ \A k \in 1..Len(expect) : report[c + 1 + k] = TextLine(expect[k])
                   /\ report[c + 1] = BlankLine
                   /\ report[c + 2 + Len(expect)] = BlankLine
                   /\ Len(report) = c + 4 + Len(expect)
                   /\ \A n \in 1..c : \A t \in DOMAIN BulletKinds :
                         report[n].kind # BulletKinds[t]

\* A block of each tag under a severity that is not High: the three
\* category bullets and no high-volume bullet.
C20_Witness ==
    /\ Reported
    /\ \A t \in {"insert", "delete", "replace"} : BlocksWithTag(t) # <<>>
    /\ \E n \in LinesOfKind(SeverityKind) : report[n].severity = "**Medium**"
    /\ LinesOfKind(BulletKinds.volume) = {}
    /\ \A t \in {"insert", "delete", "replace"} : LinesOfKind(BulletKinds[t]) # {}

\* compare() past line 561: unified holds the unified diff of the request.
Unified == pc \in {"unified", "reported", "done"}

(***************************************************************************)
(* C21 - Identical content.  When the two inputs have the same content     *)
(* once page markers are stripped, N lines of it (the markers themselves   *)
(* may differ), compute_diff returns the stats equal = N, insert = 0,      *)
(* delete = 0, replace = 0 and no block with a tag other than equal,       *)
(* generate_unified_diff returns the empty string, and generate_report     *)
(* states that the documents are identical.                                *)
(***************************************************************************)
C21_IdenticalContent ==
    (Unified /\ StripMarkers(filtered_a) = StripMarkers(filtered_b)) =>
        /\ stats = [equal |-> Len(StripMarkers(filtered_a)), insert |-> 0,
                    delete |-> 0, replace |-> 0]
        /\ \A n \in 1..Len(diff_blocks) : diff_blocks[n].tag = "equal"
        /\ unified = <<>>
        /\ Reported => LinesOfKind(IdenticalKind) = {Len(report)}

\* The same two content lines behind different page markers, reported.
C21_Witness ==
    /\ Reported
    /\ StripMarkers(filtered_a) = <<LineAB, LineAC>>
    /\ StripMarkers(filtered_b) = <<LineAB, LineAC>>
    /\ MarkersOf(filtered_a) # MarkersOf(filtered_b)
    /\ unified = <<>>

\* The positions (1-based) at which two line sequences of one length differ.
Differences(ta, tb) == {k \in 1..Len(ta) : ta[k] # tb[k]}

\* The outcome of compute_diff is one replace of content line k (1-based)
\* among n lines: the stats, the only non-equal block, its word diffs.
SingleReplace(k, n) ==
    /\ stats = [equal |-> n - 1, insert |-> 0, delete |-> 0, replace |-> 1]
    /\ Len(ChangeBlocks) = 1
    /\ LET b == ChangeBlocks[1]
       IN  /\ b.tag = "replace"
           /\ b.left_start = k - 1 /\ b.left_end = k
           /\ b.right_start = k - 1 /\ b.right_end = k
           /\ Len(b.word_diffs) = 1

\* The example of test_compute_diff_basic: A,B,C against A,X,C.
BasicExample ==
    /\ StripMarkers(filtered_a) = <<<<"A">>, <<"B">>, <<"C">>>>
    /\ StripMarkers(filtered_b) = <<<<"A">>, <<"X">>, <<"C">>>>

BasicExampleOutcome ==
    /\ SingleReplace(2, 3)
    /\ ChangeBlocks[1].word_diffs[1] =
          [left_spans  |-> <<<<<<"B">>, "delete">>>>,
           right_spans |-> <<<<<<"X">>, "insert">>>>]

\* A line sequence holds the line.
Occurs(line, lines) == \E i \in 1..Len(lines) : lines[i] = line

(***************************************************************************)
(* C23 - Single change.  As stated: two inputs of the same length n that   *)
(* differ at exactly one position k give the stats equal = n-1, insert =   *)
(* 0, delete = 0, replace = 1 and exactly one non-equal block, a replace   *)
(* of [k, k+1) on both sides with one word-diff entry.  This fails when    *)
(* the changed line occurs elsewhere: A,B,A against A,A,A gives a delete   *)
(* and an insert.                                                          *)
(***************************************************************************)
C23_Original ==
    Diffed =>
        LET ta == StripMarkers(filtered_a)
            tb == StripMarkers(filtered_b)
        IN  \A k \in 1..Len(ta) :
                (Len(ta) = Len(tb) /\ Differences(ta, tb) = {k})
                    => SingleReplace(k, Len(ta))

(***************************************************************************)
(* C23 - Single change, amended.  Two inputs of the same length n that     *)
(* differ at exactly one position k, where the line at k of each input     *)
(* occurs nowhere in the other input, give the stats equal = n-1, insert = *)
(* 0, delete = 0, replace = 1 and exactly one non-equal block, a replace   *)
(* of [k, k+1) on both sides with one word-diff entry; A,B,C against       *)
(* A,X,C gives the replace at 1..2 with left_spans [[B, delete]] and       *)
(* right_spans [[X, insert]].                                              *)
(***************************************************************************)
C23_SingleChange ==
    Diffed =>
        LET ta == StripMarkers(filtered_a)
            tb == StripMarkers(filtered_b)
        IN  /\ \A k \in 1..Len(ta) :
                  (/\ Len(ta) = Len(tb)
                   /\ Differences(ta, tb) = {k}
                   /\ ~Occurs(ta[k], tb)
                   /\ ~Occurs(tb[k], ta))
                      => SingleReplace(k, Len(ta))
            /\ BasicExample => BasicExampleOutcome

\* The example of the test after compute_diff.
C23_Witness == Diffed /\ BasicExample /\ BasicExampleOutcome

\* The loop of apply_ignore_rules has taken a content line of lines_a.
OnContentLine == rule_k > 0 /\ ~_is_page_marker(lines_a[rule_k])

RuleRank == [whitespace |-> 1, case |-> 2, pattern |-> 3, header_footer |-> 4]

\* The rules that the options switch on, in the order of the claim.
ActiveRules ==
    (IF ignore_options.ignore_whitespace THEN <<"whitespace">> ELSE <<>>)
    \o (IF ignore_options.ignore_case THEN <<"case">> ELSE <<>>)
    \o (IF ignore_options.ignore_pattern # <<>> THEN <<"pattern">> ELSE <<>>)
    \o (IF ignore_options.ignore_headers_footers THEN <<"header_footer">> ELSE <<>>)

LoggedRules == [i \in 1..Len(rule_log) |-> rule_log[i].rule]

DroppedBy(rule) ==
    \E i \in 1..Len(rule_log) : rule_log[i].rule = rule /\ rule_log[i].outcome = "dropped"

LineDropped == DroppedBy("pattern") \/ DroppedBy("header_footer")

\* The step-by-step loop returns what apply_ignore_rules returns, and
\* raises when it raises.
RuleStepsAgree ==
    LET r == apply_ignore_rules(lines_a, ignore_options)
    IN  /\ rule_pc = "returned" => (r.exc = "none" /\ rule_result = r.result)
        /\ rule_pc = "raised" => r.exc # "none"

(***************************************************************************)
(* C25 - Rule order.  apply_ignore_rules applies the active rules to each  *)
(* content line in the fixed order whitespace, case, pattern,              *)
(* header/footer: the pattern and the header/footer rule examine the line  *)
(* as the whitespace and case rules left it, a line that the pattern rule  *)
(* drops is never examined by the header/footer rule, and a line that is   *)
(* kept has been examined by every active rule and is emitted in its       *)
(* transformed form.                                                       *)
(***************************************************************************)
C25_RuleOrder ==
    OnContentLine =>
        LET transformed == Normalised(lines_a[rule_k], ignore_options)
        IN  /\ \A i, j \in 1..Len(rule_log) :
                  i < j => RuleRank[rule_log[i].rule] < RuleRank[rule_log[j].rule]
            /\ \A i \in 1..Len(rule_log) :
                  /\ rule_log[i].rule \in {"pattern", "header_footer"}
                        => rule_log[i].seen = transformed
                  /\ rule_log[i].rule = "header_footer" => ~DroppedBy("pattern")
            /\ (rule_pc \in {"loop", "returned"} /\ ~LineDropped) =>
                  /\ LoggedRules = ActiveRules
                  /\ rule_result # <<>>
                  /\ rule_result[Len(rule_result)] = transformed

\* The pattern "a b" drops " A \t b " once collapsed and case-folded, with
\* the header/footer rule switched on.
C25_Witness ==
    /\ OnContentLine
    /\ rule_pc = "loop"
    /\ ignore_options.ignore_headers_footers
    /\ LoggedRules = <<"whitespace", "case", "pattern">>
    /\ DroppedBy("pattern")
    /\ lines_a[rule_k] = LineSpacedUpper
    /\ rule_log[3].seen = LineAB

\* The spans of a kind, in order.
SpansOfKind(spans, kind) == SelectSeq(spans, LAMBDA s : s[2] = kind)

\* The word opcodes of a line pair that give a span on the left (equal,
\* delete, replace) and on the right (equal, insert, replace).
WordOpcodes(left, right) == get_opcodes(Split(left), Split(right))

LeftOpcodes(left, right) == SelectSeq(WordOpcodes(left, right), LAMBDA c : c[1] # "insert")

RightOpcodes(left, right) == SelectSeq(WordOpcodes(left, right), LAMBDA c : c[1] # "delete")

(***************************************************************************)
(* C26 - Span kinds.  In every entry of compute_word_diffs the left spans  *)
(* are of kind equal or delete and the right spans of kind equal or        *)
(* insert, and the equal spans are the same sequence on both sides.  Each  *)
(* word opcode gives its spans in order: an equal opcode one equal span on *)
(* each side, a delete opcode one delete span on the left only, an insert  *)
(* opcode one insert span on the right only, a replace opcode one delete   *)
(* span on the left and one insert span on the right.                      *)
(***************************************************************************)
C26_SpanKinds ==
    Diffed =>
        \A b \in ReplaceBlocks : \A i \in 1..Len(b.word_diffs) :
            LET e     == b.word_diffs[i]
                left  == LineOrEmpty(b.left_lines, i)
                right == LineOrEmpty(b.right_lines, i)
                lops  == LeftOpcodes(left, right)
                rops  == RightOpcodes(left, right)
            IN  /\ \A k \in 1..Len(e.left_spans) : e.left_spans[k][2] \in {"equal", "delete"}
                /\ \A k \in 1..Len(e.right_spans) : e.right_spans[k][2] \in {"equal", "insert"}
                /\ SpansOfKind(e.left_spans, "equal") = SpansOfKind(e.right_spans, "equal")
                /\ Len(e.left_spans) = Len(lops)
                /\ Len(e.right_spans) = Len(rops)
                /\ \A k \in 1..Len(lops) :
                      e.left_spans[k] =
                          <<Join(<<" ">>, Slice(Split(left), lops[k][2], lops[k][3])),
                            IF lops[k][1] = "equal" THEN "equal" ELSE "delete">>
                /\ \A k \in 1..Len(rops) :
                      e.right_spans[k] =
                          <<Join(<<" ">>, Slice(Split(right), rops[k][4], rops[k][5])),
                            IF rops[k][1] = "equal" THEN "equal" ELSE "insert">>

\* "a b c" against " A \t b " and "a b": the first entry comes of a replace,
\* an equal and a delete opcode, the second of an insert opcode.
C26_Witness ==
    /\ Diffed
    /\ \E b \in ReplaceBlocks :
          /\ b.left_lines = <<LineABC>>
          /\ b.right_lines = <<LineSpacedUpper, LineAB>>
          /\ b.word_diffs[1] =
                [left_spans  |-> <<<<<<"a">>, "delete">>, <<<<"b">>, "equal">>,
                                   <<<<"c">>, "delete">>>>,
                 right_spans |-> <<<<<<"A">>, "insert">>, <<<<"b">>, "equal">>>>]
          /\ b.word_diffs[2] =
                [left_spans  |-> <<>>,
                 right_spans |-> <<<<LineAB, "insert">>>>]

\* The tags of diff_blocks, in order.
Tags == [n \in 1..Len(diff_blocks) |-> diff_blocks[n].tag]

(***************************************************************************)
(* C27 - Maximal blocks.  No two consecutive blocks of compute_diff have   *)
(* the same tag, and a block that is not equal is followed by an equal     *)
(* block or by nothing: any two non-equal blocks are separated by at least *)
(* one equal block.                                                        *)
(***************************************************************************)
C27_MaximalBlocks ==
    Diffed =>
        /\ \A n \in 1..(Len(diff_blocks) - 1) : Tags[n] # Tags[n + 1]
        /\ \A m, n \in 1..Len(diff_blocks) :
              (m < n /\ Tags[m] # "equal" /\ Tags[n] # "equal")
                  => \E e \in (m + 1)..(n - 1) : Tags[e] = "equal"

\* Two blocks that are not equal, of different tags, around an equal block.
C27_Witness ==
    /\ Diffed
    /\ Len(diff_blocks) = 3
    /\ Tags[1] = "delete" /\ Tags[2] = "equal" /\ Tags[3] = "insert"
    /\ diff_blocks[1].left_end = diff_blocks[2].left_start

(***************************************************************************)
(* C29 - Block shapes.  An equal block has the same non-zero length on     *)
(* both sides and left_lines equal to right_lines element by element; an   *)
(* insert block has an empty left side and a non-empty right side; a       *)
(* delete block a non-empty left side and an empty right side; a replace   *)
(* block is non-empty on both sides.                                       *)
(***************************************************************************)
C29_BlockShapes ==
    Diffed =>
        \A n \in 1..Len(diff_blocks) :
            LET b == diff_blocks[n] IN
            /\ Len(b.left_lines) = LeftLen(b)
            /\ Len(b.right_lines) = RightLen(b)
            /\ b.tag = "equal" =>
                  /\ LeftLen(b) > 0
                  /\ LeftLen(b) = RightLen(b)
                  /\ \A i \in 1..LeftLen(b) : b.left_lines[i] = b.right_lines[i]
            /\ b.tag = "insert" => (LeftLen(b) = 0 /\ RightLen(b) > 0)
            /\ b.tag = "delete" => (LeftLen(b) > 0 /\ RightLen(b) = 0)
            /\ b.tag = "replace" => (LeftLen(b) > 0 /\ RightLen(b) > 0)

\* An insert, an equal and a delete block in one outcome.
C29_Witness ==
    /\ Diffed
    /\ Tags = <<"insert", "equal", "delete">>

(***************************************************************************)
(* C30 - Insertions only.  When equal + delete + replace = 0 and insert >  *)
(* 0, generate_report takes the change percentage as 0: the table shows    *)
(* 0.0, the one severity sentence is Low, the inserted content is listed   *)
(* under New Content with the Added-content consequence, and the           *)
(* high-volume consequence is absent.                                      *)
(***************************************************************************)
C30_InsertOnly ==
    (Reported /\ TotalLines = 0 /\ stats.insert > 0) =>
        /\ \E n \in 1..Len(report) :
              /\ LinesOfKind("| Change percentage |") = {n}
              /\ report[n].pct = <<"0", ".", "0">>
        /\ \E n \in 1..Len(report) :
              /\ LinesOfKind(SeverityKind) = {n}
              /\ report[n].severity = "**Low**"
        /\ \E h \in 1..Len(report) :
              /\ LinesOfKind(HeadingKinds.insert) = {h}
              /\ ListingAt(h, "insert")
        /\ LinesOfKind(BulletKinds.insert) # {}
        /\ LinesOfKind(BulletKinds.volume) = {}

\* An empty first document against two lines: two inserted lines in one
\* block, reported as Low.
C30_Witness ==
    /\ Reported
    /\ stats = [equal |-> 0, insert |-> 2, delete |-> 0, replace |-> 0]
    /\ Len(BlocksWithTag("insert")) = 1
    /\ \E n \in LinesOfKind(SeverityKind) : report[n].severity = "**Low**"
    /\ LinesOfKind("N. Near line") # {}

(***************************************************************************)
(* The cap on the unified diff in the prompt of generate_llm_report.       *)
(***************************************************************************)
RECURSIVE PartChars(_, _)
\* The number of characters of the part in the text.
PartChars(text, part) ==
    IF text = <<>> THEN 0
    ELSE (IF Head(text).part = part THEN Head(text).len ELSE 0)
         + PartChars(Tail(text), part)

\* The text holds the truncation marker.
Marked(text) == PartChars(text, "marker") > 0

\* The text holds the whole diff, unmarked, or the first max_diff_chars
\* characters of a longer diff with the marker after them.
DiffCapped(text, diff_text) ==
    IF TextLen(diff_text) > max_diff_chars
    THEN /\ PartChars(text, "diff") = max_diff_chars
         /\ Marked(text)
         /\ \A k \in 1..Len(text) :
                text[k].part = "diff" => \E m \in (k + 1)..Len(text) : text[m].part = "marker"
    ELSE /\ PartChars(text, "diff") = TextLen(diff_text)
         /\ ~Marked(text)

\* C22: every request sent to the provider carries the unified diff capped
\* at 80,000 characters: a longer diff is cut to its first 80,000
\* characters and followed by the truncation marker, a diff of at most
\* 80,000 characters is whole and there is no marker.
C22_DiffCapped ==
    \A k \in 1..Len(requests) : DiffCapped(requests[k].user, llm_request.unified_diff)

(***************************************************************************)
(* The endpoint check of the provider calls and the refusal of redirects.  *)
(***************************************************************************)
\* The URL the provider call of the request addresses.
RequestUrl == EndpointUrl(llm_request.provider, llm_request.endpoint)

\* The provider call has resolved the host name of the URL.
HostResolved == resolved # NotResolved /\ resolved # GaiError

\* The URL is one that no provider may address.
UrlForbidden ==
    \/ RequestUrl.scheme \notin {"http", "https"}
    \/ RequestUrl.fragment # ""
    \/ RequestUrl.hostname \in {HostMetadataAWS, HostMetadataGCP, HostMetadataAlibaba}

\* The host name resolved to an address that no provider may address.
AddressForbidden ==
    HostResolved /\ \E ip \in resolved : ip.is_reserved \/ ip.is_link_local

\* The host name resolved to an address that only a local provider may
\* address.
AddressLocal ==
    HostResolved /\ \E ip \in resolved : ip.is_private \/ ip.is_loopback

\* The call is past _validate_endpoint.
PastValidation == llm_pc \in {"validated", "responded", "returned", "raised"} /\ llm_exc # "Unknown LLM provider"

FirstRequest ==
    [pc |-> pc, lines_a |-> lines_a, lines_b |-> lines_b,
     ignore_options |-> ignore_options, filtered_a |-> filtered_a,
     filtered_b |-> filtered_b, exc |-> exc, diff_blocks |-> diff_blocks,
     stats |-> stats, unified |-> unified, report |-> report, meta_a |-> meta_a,
     meta_b |-> meta_b, metadata_diff |-> metadata_diff]

\* What the request yields when it runs alone from entry to its end.
Alone(r) ==
    LET ra == apply_ignore_rules(r.lines_a, r.ignore_options)
        rb == apply_ignore_rules(r.lines_b, r.ignore_options)
        d  == compute_diff(ra.result, rb.result)
    IN  IF ra.exc # "none" THEN [pc |-> "failed", exc |-> ra.exc]
        ELSE IF rb.exc # "none" THEN [pc |-> "failed", exc |-> rb.exc]
        ELSE [pc |-> "done", exc |-> "none",
              filtered_a |-> ra.result, filtered_b |-> rb.result,
              diff_blocks |-> d.diff_blocks, stats |-> d.stats,
              unified |-> generate_unified_diff(ra.result, rb.result, NameA, NameB),
              report |-> generate_report(d.diff_blocks, d.stats, NameA, NameB),
              metadata_diff |-> compare_metadata(r.meta_a, r.meta_b)]

\* Every result the request holds so far is the one of its run alone.
AsAlone(r) ==
    LET alone == Alone(r) IN
    /\ r.pc = "failed" => alone.pc = "failed" /\ r.exc = alone.exc
    /\ r.pc \in {"filtered", "diffed", "unified", "reported", "done"} =>
           /\ alone.pc = "done"
           /\ r.filtered_a = alone.filtered_a
           /\ r.filtered_b = alone.filtered_b
    /\ r.pc \in {"diffed", "unified", "reported", "done"} =>
           r.diff_blocks = alone.diff_blocks /\ r.stats = alone.stats
    /\ r.pc \in {"unified", "reported", "done"} => r.unified = alone.unified
    /\ r.pc \in {"reported", "done"} => r.report = alone.report
    /\ r.pc = "done" => r.metadata_diff = alone.metadata_diff

\* The step leaves the inputs of both requests as they were.
InputsKept ==
    /\ lines_a' = lines_a /\ lines_b' = lines_b
    /\ ignore_options' = ignore_options
    /\ meta_a' = meta_a /\ meta_b' = meta_b
    /\ peer'.lines_a = peer.lines_a /\ peer'.lines_b = peer.lines_b
    /\ peer'.ignore_options = peer.ignore_options
    /\ peer'.meta_a = peer.meta_a /\ peer'.meta_b = peer.meta_b

\* C24: under every interleaving of the stages of two concurrent requests,
\* each request holds at every stage the results of its run alone, and no
\* step changes the input sequences, options or metadata of either.
C24_RequestsIsolated ==
    /\ [](AsAlone(FirstRequest) /\ AsAlone(peer))
    /\ [][InputsKept]_vars

\* C24: both requests are between two stages at once, with different
\* options and different filtered documents, and the cache of re holds the
\* patterns that one of them had compiled.
C24_Witness ==
    /\ pc = "filtered"
    /\ peer.pc = "diffed"
    /\ ignore_options # peer.ignore_options
    /\ filtered_a # peer.filtered_a
    /\ PatLiteral \in re_cache
    /\ BarePageNumberPattern \in re_cache

====
